---- MODULE Spec2Model ----
(***************************************************************************)
(* Bill splitter: the settlement engine (calculate) and the currency       *)
(* normalizer with its rate cache (convertBillsToBase, fetchRates,         *)
(* RateCache).                                                             *)
(*                                                                         *)
(* Money is float64 in the program.  Here an amount is an integer number   *)
(* of units of 0.005, so the tolerance 0.01 of the program is Eps = 2      *)
(* units and there are amounts strictly between 0 and the tolerance.  The  *)
(* bills the model feeds to calculate are those whose amount is a multiple *)
(* of the participant count: for them the division is exact here as it is  *)
(* in real arithmetic, and no property below rests on a rounding error.    *)
(***************************************************************************)
EXTENDS Integers, Sequences, FiniteSets, TLC

VARIABLES
    \* ---- calculate(people, bills) ----
    cpc,          \* position in calculate: idle, bills, greedy, done
    people,       \* ids of the people argument (the keys of nameMap)
    balance,      \* map[int]float64: id -> net balance
    creditors,    \* []struct{id, amount}
    debtors,      \* []struct{id, amount}
    i, j,         \* indexes of the greedy loop (0-based as in the program)
    settlements,  \* []Settlement built so far
    \* ---- history of the call, read by the properties only ----
    nbills,       \* number of bills the bill loop has gone through
    only,         \* the bill, while exactly one bill has been gone through
    sawEmpty,     \* a bill without participants has been gone through
    balanceSkip,  \* the balance of the same call without those bills
    applied       \* the bill of the latest iteration and the balance before it

VARIABLES
    \* ---- the rate cache, the clock and the calls of convertBillsToBase ----
    rateCache,    \* RateCache.cache: lower-case base -> rateEntry, or NoEntry
    now,          \* time.Now(), in minutes
    rpc,          \* per call: its position in convertBillsToBase / fetchRates
    req,          \* per call: the arguments base and bills
    entry,        \* per call: the local entry (NoEntry while there is none)
    attempt,      \* per call: the loop index i of fetchRates
    lastErr,      \* per call: lastErr of fetchRates
    result,       \* per call: what convertBillsToBase returned
    response,     \* per call: the CalculateResponse of processCalculate
    \* ---- history of each call, read by the properties only ----
    got,          \* per call: what rateCache.Get returned
    checkedAt,    \* per call: the value of now := time.Now()
    fetches,      \* per call: number of rateFetcher.Fetch calls
    errs,         \* per call: the errors of its failed Fetch calls, in order
    sets          \* per call: number of rateCache.Set calls

VARIABLES
    \* ---- RateCache.mu and the goroutines calling RateCache.Get / Set ----
    readers,      \* the goroutines holding mu for reading
    writer,       \* the goroutine that has called mu.Lock and not yet Unlock, or 0
    tpc,          \* per goroutine: its position in Get or Set
    op,           \* per goroutine: the call it is in (Get or Set, base, entry)
    ret,          \* per goroutine: what its last Get returned
    \* ---- history, read by the properties only ----
    lastSet       \* per base: the entry of the latest completed map write

VARIABLES
    \* ---- handleSync: the shared state, its mutex and the requests ----
    projectState, \* the GlobalState the server keeps
    stateMutex,   \* the request holding stateMutex, or 0
    spc,          \* per request: its position in handleSync
    sreq,         \* per request: r.Method and r.Body
    sresp,        \* per request: what it wrote to the ResponseWriter
    \* ---- history, read by the properties only ----
    stored,       \* the states that POST requests have stored
    wrote,        \* per request: the state it stored, if it stored one
    setBack       \* the wall clock has been set back

VARIABLES
    \* ---- processCalculate ----
    requestJSON,  \* per call: the request as processCalculate received it
    \* ---- history, read by the properties only ----
    prev,         \* per call slot: the base code and Set count of the request before
    \* ---- parseRateResponse called by itself ----
    parsed        \* the arguments and the return of the latest call

calcVars == <<cpc, people, balance, creditors, debtors, i, j, settlements,
              nbills, only, sawEmpty, balanceSkip, applied>>

convVars == <<rateCache, now, rpc, req, entry, attempt, lastErr, result, response,
              got, checkedAt, fetches, errs, sets>>

\* The calls of convertBillsToBase, without the cache and the clock.
callVars == <<rpc, req, entry, attempt, lastErr, result, response,
              got, checkedAt, fetches, errs, sets>>

lockVars == <<readers, writer, tpc, op, ret, lastSet>>

syncVars == <<projectState, stateMutex, spc, sreq, sresp, stored, wrote, setBack>>

procVars == <<requestJSON, prev, parsed>>

vars == <<calcVars, convVars, lockVars, syncVars, procVars>>

(***************************************************************************)
(* Bounds and input sets                                                   *)
(***************************************************************************)
MaxBills == 2          \* bills per call of calculate

Eps == 2               \* the program's 0.01, in units of 0.005

MaxSettlements == 5    \* iterations of the greedy loop that are followed
MaxFloat == 1000000    \* the largest finite float64, in units of 0.005

(***************************************************************************)
(* float64: the amounts are float64 values.  A sum beyond the largest      *)
(* finite value is an infinity, the difference of two infinities is NaN,   *)
(* and every ordered comparison with NaN is false.                         *)
(***************************************************************************)
PosInf == MaxFloat + 1
NegInf == 0 - PosInf
NaN == MaxFloat + 2

IsNaN(x) == x = NaN

\* The float64 nearest to a real number: an infinity beyond the finite range.
Round(x) == IF x > MaxFloat THEN PosInf ELSE IF x < 0 - MaxFloat THEN NegInf ELSE x

\* a + b
FAdd(a, b) ==
    IF IsNaN(a) \/ IsNaN(b) THEN NaN
    ELSE IF a = PosInf THEN (IF b = NegInf THEN NaN ELSE PosInf)
    ELSE IF a = NegInf THEN (IF b = PosInf THEN NaN ELSE NegInf)
    ELSE IF b \in {PosInf, NegInf} THEN b
    ELSE Round(a + b)

\* -a
FNeg(a) == IF IsNaN(a) THEN NaN ELSE 0 - a

\* a - b
FSub(a, b) == FAdd(a, FNeg(b))

\* a / float64(n), n a positive count
FDiv(a, n) == IF a \in {NaN, PosInf, NegInf} THEN a ELSE a \div n

\* a < b
FLess(a, b) == ~IsNaN(a) /\ ~IsNaN(b) /\ a < b

\* a > b
FGreater(a, b) == FLess(b, a)

Ids == {1, 2, 3, 4}    \* person ids a request may mention
PeopleSets == {{}, {1, 2, 3}}
Amounts == {0, 4, 6}   \* 0, 0.02, 0.03

Names == <<"Alice", "Bob", "Charlie", "Dave">>   \* Person.Name of id 1..4

NoBill == [AmountBase |-> 0, Amount |-> 0, PaidBy |-> 0, Participants |-> <<>>]
NoApplied == [bill |-> NoBill, before |-> <<>>]

\* Participant lists: none, one, two or three ids, an id listed twice, an id
\* (4) that is not among the people.
ParticipantLists ==
    {<<>>, <<1>>, <<3>>, <<1, 2>>, <<2, 3>>, <<3, 3>>, <<3, 4>>, <<1, 2, 3>>}

\* The amount in the bill's own currency, whether or not it was converted.
BillAmount_AlwaysAmount(bill) == bill.Amount

\* amt := bill.AmountBase; if amt == 0 { amt = bill.Amount }
BillAmount(bill) == IF bill.AmountBase = 0 THEN bill.Amount ELSE bill.AmountBase

\* <<AmountBase, Amount>> of a bill: converted 1:1, not converted, converted
\* at another rate.
AmountPairs == {<<0, 0>>, <<4, 4>>, <<0, 4>>, <<6, 4>>}

\* The bills of TestCalculate: 300 paid by Alice and 150 paid by Bob, each
\* split over Alice, Bob and Charlie.
TestBill300 ==
    [AmountBase |-> 60000, Amount |-> 60000, PaidBy |-> 1, Participants |-> <<1, 2, 3>>]
TestBill150 ==
    [AmountBase |-> 30000, Amount |-> 0, PaidBy |-> 2, Participants |-> <<1, 2, 3>>]

BillUniverse ==
    {b \in [AmountBase : Amounts, Amount : Amounts, PaidBy : Ids,
            Participants : ParticipantLists] :
        /\ <<b.AmountBase, b.Amount>> \in AmountPairs
        /\ Len(b.Participants) > 0 => BillAmount(b) % Len(b.Participants) = 0}
    \cup {TestBill300, TestBill150}

\* An amount that a request can state and that two bills cannot add up to:
\* three quarters of the largest finite float64.
HugeAmount == (MaxFloat \div 4) * 3

\* Bills of 0.02 or of the huge amount, not converted, paid by Alice or Bob
\* for Bob or for Bob and Charlie.
HugeBills ==
    [AmountBase : {0}, Amount : {4, HugeAmount}, PaidBy : {1, 2},
     Participants : {<<2>>, <<2, 3>>}]

(***************************************************************************)
(* Helpers on Go maps and slices                                           *)
(***************************************************************************)
\* m[k] of a Go map: the zero value when the key is absent.
MapGet(m, k) == IF k \in DOMAIN m THEN m[k] ELSE 0

\* m[k] += v: inserts the key when absent.
MapAdd(m, k, v) ==
    [x \in DOMAIN m \cup {k} |-> IF x = k THEN FAdd(MapGet(m, x), v) ELSE MapGet(m, x)]

\* A lookup that knows the name of every id, listed among the people or not.
NameOf_Everyone(pp, id) == Names[id]

\* nameMap[id]: the person's name, "" for an id that is not among the people.
NameOf(pp, id) == IF id \in pp THEN Names[id] ELSE ""


\* The orders in which a range loop may visit the keys of a map.
Orders(S) ==
    {s \in [1..Cardinality(S) -> S] :
        \A a, b \in 1..Cardinality(S) : a # b => s[a] # s[b]}

(***************************************************************************)
(* calculate: the bill loop                                                *)
(***************************************************************************)
\* A debit of one share from each distinct participant.
DebitAll_Once(bal, parts, perPerson) ==
    [x \in DOMAIN bal \cup {parts[k] : k \in 1..Len(parts)} |->
        MapGet(bal, x) - (IF \E k \in 1..Len(parts) : parts[k] = x THEN perPerson ELSE 0)]

RECURSIVE DebitAll(_, _, _)
\* for _, pid := range bill.Participants { balance[pid] -= perPerson }
DebitAll(bal, parts, perPerson) ==
    IF parts = <<>> THEN bal
    ELSE DebitAll(MapAdd(bal, Head(parts), FNeg(perPerson)), Tail(parts), perPerson)

\* if len(bill.Participants) == 0 { continue }
SkipBill(bill) == Len(bill.Participants) = 0

\* The loop body without the skip of a bill that has no participants: the
\* payer is credited, nobody is debited.
ApplyBill_NoSkip(bal, bill) ==
    LET amt == BillAmount(bill)
        perPerson == IF Len(bill.Participants) = 0 THEN 0
                     ELSE amt \div Len(bill.Participants)
    IN DebitAll(MapAdd(bal, bill.PaidBy, amt), bill.Participants, perPerson)

\* The loop body crediting the payer with one share instead of the amount.
ApplyBill_CreditShare(bal, bill) ==
    IF SkipBill(bill) THEN bal
    ELSE LET perPerson == BillAmount(bill) \div Len(bill.Participants)
         IN DebitAll(MapAdd(bal, bill.PaidBy, perPerson), bill.Participants, perPerson)

\* One iteration of the loop over bills.
ApplyBill(bal, bill) ==
    IF SkipBill(bill) THEN bal
    ELSE LET amt == BillAmount(bill)
             perPerson == FDiv(amt, Len(bill.Participants))
         IN DebitAll(MapAdd(bal, bill.PaidBy, amt), bill.Participants, perPerson)

\* balance := make(map); for _, p := range people { balance[p.ID] = 0 }
Start(pp) ==
    /\ cpc = "idle"
    /\ cpc' = "bills"
    /\ people' = pp
    /\ balance' = [id \in pp |-> 0]
    /\ balanceSkip' = [id \in pp |-> 0]
    /\ applied' = NoApplied
    /\ UNCHANGED <<convVars, lockVars, syncVars, procVars, creditors, debtors, i, j, settlements, nbills, only, sawEmpty>>

ProcessBill(bill) ==
    /\ cpc = "bills"
    /\ nbills < MaxBills
    /\ balance' = ApplyBill(balance, bill)
    /\ nbills' = nbills + 1
    /\ only' = IF nbills = 0 THEN bill ELSE NoBill
    /\ sawEmpty' = (sawEmpty \/ Len(bill.Participants) = 0)
    /\ balanceSkip' = IF Len(bill.Participants) = 0
                      THEN balanceSkip
                      ELSE DebitAll(MapAdd(balanceSkip, bill.PaidBy, BillAmount(bill)),
                                    bill.Participants,
                                    FDiv(BillAmount(bill), Len(bill.Participants)))
    /\ applied' = [bill |-> bill, before |-> balance]
    /\ UNCHANGED <<convVars, lockVars, syncVars, procVars, cpc, people, creditors, debtors, i, j, settlements>>

(***************************************************************************)
(* calculate: the partition (range over the map, in any order)             *)
(***************************************************************************)
\* A creditor test without the tolerance.
IsCreditor_NoTolerance(amt) == amt > 0

\* A debtor test on the magnitude alone, which creditors pass too.
IsDebtor_Magnitude(amt) == FLess(amt, 0 - Eps) \/ FGreater(amt, Eps)

\* if amt > 0.01
IsCreditor(amt) == FGreater(amt, Eps)
\* if amt < -0.01
IsDebtor(amt) == FLess(amt, 0 - Eps)

RECURSIVE CreditorsIn(_, _)
\* The creditors list the range loop builds when it visits the keys in `order`.
CreditorsIn(bal, order) ==
    IF order = <<>> THEN <<>>
    ELSE LET id == Head(order)
         IN (IF IsCreditor(bal[id]) THEN <<[id |-> id, amount |-> bal[id]]>> ELSE <<>>)
            \o CreditorsIn(bal, Tail(order))

RECURSIVE DebtorsIn(_, _)
DebtorsIn(bal, order) ==
    IF order = <<>> THEN <<>>
    ELSE LET id == Head(order)
         IN (IF IsDebtor(bal[id]) THEN <<[id |-> id, amount |-> FNeg(bal[id])]>> ELSE <<>>)
            \o DebtorsIn(bal, Tail(order))

\* A partition without the tolerance and with non-strict comparisons.
PartitionLists_NoTolerance(bal, order) ==
    [creditors |-> [k \in 1..Len(order) |-> [id |-> order[k], amount |-> bal[order[k]]]],
     debtors |-> [k \in 1..Len(order) |-> [id |-> order[k], amount |-> 0 - bal[order[k]]]]]

\* for id, amt := range balance { ... }: both lists, keys visited in `order`.
PartitionLists(bal, order) ==
    [creditors |-> CreditorsIn(bal, order), debtors |-> DebtorsIn(bal, order)]

\* The bill loop ends and the range loop runs, visiting the keys in `order`.
Partition(order) ==
    /\ cpc = "bills"
    /\ order \in Orders(DOMAIN balance)
    /\ cpc' = "greedy"
    /\ creditors' = PartitionLists(balance, order).creditors
    /\ debtors' = PartitionLists(balance, order).debtors
    /\ i' = 0
    /\ j' = 0
    /\ settlements' = <<>>
    /\ applied' = NoApplied
    /\ UNCHANGED <<convVars, lockVars, syncVars, procVars, people, balance, nbills, only, sawEmpty, balanceSkip>>

(***************************************************************************)
(* calculate: the greedy matching                                          *)
(***************************************************************************)
\* for i < len(creditors) && j < len(debtors)
LoopCond(cs, ds, ci, dj) == ci < Len(cs) /\ dj < Len(ds)

\* The larger of the two amounts instead of the smaller.
TransferAmount_Max(cred, debt) ==
    IF debt.amount > cred.amount THEN debt.amount ELSE cred.amount

\* amt := cred.amount; if debt.amount < amt { amt = debt.amount }
TransferAmount(cred, debt) ==
    IF FLess(debt.amount, cred.amount) THEN debt.amount ELSE cred.amount

\* Advancing only past a negative remainder.
Settled_Negative(amt) == amt < 0

\* Advancing only below half the tolerance.
Settled_HalfTolerance(amt) == amt < Eps \div 2

\* if creditors[i].amount < 0.01 { i++ }   (the same test for debtors and j)
Settled(amt) == FLess(amt, Eps)

\* An iteration that takes the amount off the creditor only.
GreedyBody_KeepDebtor(pp, cs, ds, ci, dj, ss) ==
    LET cred == cs[ci + 1]
        debt == ds[dj + 1]
        amt == TransferAmount(cred, debt)
        cs2 == [cs EXCEPT ![ci + 1].amount = @ - amt]
    IN [creditors |-> cs2,
        debtors |-> ds,
        i |-> IF Settled(cs2[ci + 1].amount) THEN ci + 1 ELSE ci,
        j |-> IF Settled(ds[dj + 1].amount) THEN dj + 1 ELSE dj,
        settlements |-> Append(ss, [From |-> NameOf(pp, debt.id),
                                    To |-> NameOf(pp, cred.id),
                                    Amount |-> amt,
                                    debtorId |-> debt.id,
                                    creditorId |-> cred.id])]

\* One iteration of the greedy loop.  creditorId and debtorId are not fields
\* of Settlement: they record whose names To and From are.
GreedyBody(pp, cs, ds, ci, dj, ss) ==
    LET cred == cs[ci + 1]
        debt == ds[dj + 1]
        amt == TransferAmount(cred, debt)
        cs2 == [cs EXCEPT ![ci + 1].amount = FSub(@, amt)]
        ds2 == [ds EXCEPT ![dj + 1].amount = FSub(@, amt)]
    IN [creditors |-> cs2,
        debtors |-> ds2,
        i |-> IF Settled(cs2[ci + 1].amount) THEN ci + 1 ELSE ci,
        j |-> IF Settled(ds2[dj + 1].amount) THEN dj + 1 ELSE dj,
        settlements |-> Append(ss, [From |-> NameOf(pp, debt.id),
                                    To |-> NameOf(pp, cred.id),
                                    Amount |-> amt,
                                    debtorId |-> debt.id,
                                    creditorId |-> cred.id])]

GreedyStep ==
    /\ cpc = "greedy"
    /\ LoopCond(creditors, debtors, i, j)
    /\ Len(settlements) < MaxSettlements
    /\ LET r == GreedyBody(people, creditors, debtors, i, j, settlements)
       IN /\ creditors' = r.creditors
          /\ debtors' = r.debtors
          /\ i' = r.i
          /\ j' = r.j
          /\ settlements' = r.settlements
    /\ UNCHANGED <<convVars, lockVars, syncVars, procVars, cpc, people, balance, nbills, only, sawEmpty, balanceSkip,
                   applied>>

RECURSIVE RunGreedy(_, _, _, _, _, _)
\* The greedy loop run to its end: the settlements it returns.
RunGreedy(pp, cs, ds, ci, dj, ss) ==
    IF LoopCond(cs, ds, ci, dj)
    THEN LET r == GreedyBody(pp, cs, ds, ci, dj, ss)
         IN RunGreedy(pp, r.creditors, r.debtors, r.i, r.j, r.settlements)
    ELSE ss

\* What calculate returns from the balances when the range loop visits the
\* keys in `order`.
SettleFrom(pp, bal, order) ==
    LET lists == PartitionLists(bal, order)
    IN RunGreedy(pp, lists.creditors, lists.debtors, 0, 0, <<>>)

\* return settlements
Return ==
    /\ cpc = "greedy"
    /\ ~LoopCond(creditors, debtors, i, j)
    /\ cpc' = "done"
    /\ UNCHANGED <<convVars, lockVars, syncVars, procVars, people, balance, creditors, debtors, i, j, settlements,
                   nbills, only, sawEmpty, balanceSkip, applied>>

(***************************************************************************)
(* Strings: a string is a sequence of characters, so that ToLower, ToUpper *)
(* and TrimSpace do what they do in the program.                           *)
(***************************************************************************)
LowerOf == [c \in {"T", "W", "D", "U", "S", "E", "R"} |->
               CASE c = "T" -> "t" [] c = "W" -> "w" [] c = "D" -> "d"
                 [] c = "U" -> "u" [] c = "S" -> "s" [] c = "E" -> "e"
                 [] c = "R" -> "r"]

\* strings.ToLower
ToLower(str) ==
    [k \in 1..Len(str) |-> IF str[k] \in DOMAIN LowerOf THEN LowerOf[str[k]] ELSE str[k]]

\* strings.ToUpper
ToUpper(str) ==
    [k \in 1..Len(str) |->
        IF \E c \in DOMAIN LowerOf : LowerOf[c] = str[k]
        THEN CHOOSE c \in DOMAIN LowerOf : LowerOf[c] = str[k]
        ELSE str[k]]

RECURSIVE TrimLeft(_)
TrimLeft(str) ==
    IF str # <<>> /\ Head(str) = " " THEN TrimLeft(Tail(str)) ELSE str

RECURSIVE TrimRight(_)
TrimRight(str) ==
    IF str # <<>> /\ str[Len(str)] = " "
    THEN TrimRight(SubSeq(str, 1, Len(str) - 1))
    ELSE str

\* strings.TrimSpace
TrimSpace(str) == TrimRight(TrimLeft(str))

twd == <<"t", "w", "d">>
usd == <<"u", "s", "d">>
eur == <<"e", "u", "r">>

(***************************************************************************)
(* Rates, rate entries and the remote rate source                          *)
(***************************************************************************)
One == 10              \* the rate 1, in tenths

TTL == 30              \* rateCacheTTL, in minutes
MaxTime == 30          \* the clock stops here
TickMinutes == 15      \* the clock advances by this much

NoEntry == [Rates |-> <<>>, Date |-> "", FetchedAt |-> 0 - 1]   \* rateEntry{}, not cached
NoErr == [kind |-> "", cur |-> <<>>]

Calls == {1, 2}        \* concurrent calls of convertBillsToBase

\* The base argument: upper case as processCalculate passes it, lower case as
\* TestConvertBillsToBase_WithMock passes it.
BaseArgs == {<<"T", "W", "D">>, usd}
CacheKeys == {ToLower(b) : b \in BaseArgs}

\* The people of a request.
RequestPeople == {1, 2}

\* A bill of a request, as convertBillsToBase reads and writes it: paid by
\* Alice for Alice and Bob.
ConvBill(id, amount, currency) ==
    [ID |-> id, Amount |-> amount, Currency |-> currency, AmountBase |-> 0,
     PaidBy |-> 1, Participants |-> <<1, 2>>]

\* The bills arguments: a bill in the base currency (no code) and 10 usd
\* written with spaces; a bill in a currency without a rate between two bills
\* that convert.
ConvBillLists ==
    {<<ConvBill(1, 1000, <<>>), ConvBill(2, 2000, <<" ", "u", "s", "d", " ">>)>>,
     <<ConvBill(1, 1000, <<"T", "W", "D">>), ConvBill(2, 600, <<"E", "U", "R">>),
       ConvBill(3, 2000, <<"U", "S", "D">>)>>}

\* Bodies the remote may answer with for a base: rate tables as the remote
\* gives them (its own rate for the base, or none), a body without the base
\* key, or a body whose entry under the base key is the JSON null
\* (null: TRUE).
RemoteBodies(base) ==
    IF base = twd
    THEN {[date |-> "2025-01-02", key |-> twd, rates |-> (usd :> 2 @@ twd :> 7 @@ eur :> 0),
           null |-> FALSE],
          [date |-> "2025-01-02", key |-> usd, rates |-> (twd :> 100), null |-> FALSE]}
    ELSE {[date |-> "", key |-> usd, rates |-> (twd :> 50 @@ eur :> 5), null |-> FALSE],
          [date |-> "", key |-> usd, rates |-> <<>>, null |-> TRUE]}

\* What a caller sees of a call that panicked: it does not return.
Panic == [kind |-> "panic", cur |-> <<>>]

\* A parse that keeps the remote's own rate for the base when it gives one.
ParseRateResponse_KeepRemoteBase(base, body, t) ==
    LET baseKey == ToLower(base)
    IN IF body.key # baseKey
       THEN [err |-> [kind |-> "parse", cur |-> <<>>], entry |-> NoEntry]
       ELSE IF body.null
       THEN [err |-> Panic, entry |-> NoEntry]
       ELSE [err |-> NoErr,
             entry |-> [Rates |-> [c \in DOMAIN body.rates \cup {baseKey} |->
                                      IF c \in DOMAIN body.rates THEN body.rates[c] ELSE One],
                        Date |-> body.date,
                        FetchedAt |-> t]]

\* A parse that takes the table of whatever key the body has.
ParseRateResponse_AnyKey(base, body, t) ==
    LET baseKey == ToLower(base)
    IN IF body.null
       THEN [err |-> Panic, entry |-> NoEntry]
       ELSE [err |-> NoErr,
             entry |-> [Rates |-> [c \in DOMAIN body.rates \cup {baseKey} |->
                                      IF c = baseKey THEN One ELSE body.rates[c]],
                        Date |-> body.date,
                        FetchedAt |-> t]]

\* parseRateResponse: the entry, or the error when the body has no entry
\* keyed by the lower-case base.  json.Unmarshal of a null entry leaves rates
\* a nil map without an error, and rates[baseKey] = 1 then panics.
ParseRateResponse(base, body, t) ==
    LET baseKey == ToLower(base)
    IN IF body.key # baseKey
       THEN [err |-> [kind |-> "parse", cur |-> <<>>], entry |-> NoEntry]
       ELSE IF body.null
       THEN [err |-> Panic, entry |-> NoEntry]
       ELSE [err |-> NoErr,
             entry |-> [Rates |-> [c \in DOMAIN body.rates \cup {baseKey} |->
                                      IF c = baseKey THEN One ELSE body.rates[c]],
                        Date |-> body.date,
                        FetchedAt |-> t]]

\* The base arguments of parseRateResponse: upper case as
\* TestParseRateResponse passes it, lower case as fetchRates passes it, and
\* mixed case.
ParseArgs == {<<"T", "W", "D">>, twd, <<"U", "s", "d">>}

\* Response bodies: with and without the date field, keyed by twd, usd or
\* the upper-case TWD, with a table that has the base's own rate or not, or
\* an empty table.
ParseBodies ==
    {[date |-> d, key |-> k, rates |-> r, null |-> FALSE] :
        d \in {"", "2025-12-06"},
        k \in {twd, usd, <<"T", "W", "D">>},
        r \in {usd :> 3, usd :> 3 @@ twd :> 7, twd :> 50 @@ eur :> 5 @@ usd :> 0, <<>>}}
    \cup {[date |-> "2025-12-06", key |-> k, rates |-> <<>>, null |-> TRUE] : k \in {twd, usd}}

NoParsed ==
    [base |-> <<>>, body |-> [date |-> "", key |-> <<>>, rates |-> <<>>, null |-> FALSE],
     out |-> [err |-> NoErr, entry |-> NoEntry]]

\* entry, err := parseRateResponse(base, data), called at the time now.
ParseCall(base, body) ==
    /\ parsed' = [base |-> base, body |-> body, out |-> ParseRateResponse(base, body, now)]
    /\ UNCHANGED <<calcVars, convVars, lockVars, syncVars, requestJSON, prev>>

\* HTTPRateFetcher.Fetch: what one call may return at time t.
FetchOutcomes(base, t) ==
    {[err |-> [kind |-> "network", cur |-> <<>>], entry |-> NoEntry],
     [err |-> [kind |-> "http", cur |-> <<>>], entry |-> NoEntry]}
    \cup {ParseRateResponse(base, body, t) : body \in RemoteBodies(base)}

(***************************************************************************)
(* convertBillsToBase: the conversion loop                                 *)
(***************************************************************************)
\* cur := strings.ToLower(strings.TrimSpace(bill.Currency)); "" is the base.
BillCurrency(baseLower, bill) ==
    LET cur == ToLower(TrimSpace(bill.Currency))
    IN IF cur = <<>> THEN baseLower ELSE cur

\* rate, ok := rates.Rates[cur]; if !ok || rate == 0
HasRate(rates, cur) == cur \in DOMAIN rates.Rates /\ rates.Rates[cur] # 0

\* bill.Amount * rate, the rate in tenths.
Convert_Multiply(amount, rate) == (amount * rate) \div One

\* bill.Amount / rate, the rate in tenths.
Convert(amount, rate) == (amount * One) \div rate

RECURSIVE ConvertLoop_Partial(_, _, _, _)
\* The loop returning, with the error, the bills converted before it.
ConvertLoop_Partial(baseLower, rates, rest, converted) ==
    IF rest = <<>>
    THEN [converted |-> converted, date |-> rates.Date, err |-> NoErr]
    ELSE LET bill == Head(rest)
             cur == BillCurrency(baseLower, bill)
         IN IF cur = baseLower
            THEN ConvertLoop_Partial(baseLower, rates, Tail(rest),
                     Append(converted, [bill EXCEPT !.AmountBase = bill.Amount]))
            ELSE IF ~HasRate(rates, cur)
            THEN [converted |-> converted, date |-> rates.Date,
                  err |-> [kind |-> "missing", cur |-> ToUpper(cur)]]
            ELSE ConvertLoop_Partial(baseLower, rates, Tail(rest),
                     Append(converted,
                            [bill EXCEPT !.AmountBase =
                                 Convert(bill.Amount, rates.Rates[cur])]))

RECURSIVE ConvertLoop(_, _, _, _)
\* The loop over bills: the converted bills, or the currency without a rate.
ConvertLoop(baseLower, rates, rest, converted) ==
    IF rest = <<>>
    THEN [converted |-> converted, date |-> rates.Date, err |-> NoErr]
    ELSE LET bill == Head(rest)
             cur == BillCurrency(baseLower, bill)
         IN IF cur = baseLower
            THEN ConvertLoop(baseLower, rates, Tail(rest),
                             Append(converted, [bill EXCEPT !.AmountBase = bill.Amount]))
            ELSE IF ~HasRate(rates, cur)
            THEN [converted |-> <<>>, date |-> rates.Date,
                  err |-> [kind |-> "missing", cur |-> ToUpper(cur)]]
            ELSE ConvertLoop(baseLower, rates, Tail(rest),
                             Append(converted,
                                    [bill EXCEPT !.AmountBase =
                                         Convert(bill.Amount, rates.Rates[cur])]))

(***************************************************************************)
(* convertBillsToBase and fetchRates, one action per step of a call        *)
(***************************************************************************)
\* A freshness test against half the TTL.
Fresh_HalfTTL(t, e) == t - e.FetchedAt < TTL \div 2

\* now.Sub(entry.FetchedAt) < rateCacheTTL
Fresh(t, e) == t - e.FetchedAt < TTL

BaseLower(c) == ToLower(req[c].base)

(***************************************************************************)
(* processCalculate: what it does with the return of convertBillsToBase    *)
(***************************************************************************)
\* processCalculate passes strings.ToUpper(strings.TrimSpace(...)) as the
\* base; TestConvertBillsToBase_WithMock calls convertBillsToBase itself,
\* with a lower-case base, and builds no response.
ViaProcessCalculate(base) == base # <<>> /\ base = ToUpper(TrimSpace(base))

NoResponse ==
    [Settlements |-> <<>>, Bills |-> <<>>, BaseCurrency |-> <<>>, RateDate |-> "",
     Error |-> NoErr]

\* CalculateResponse{Error: err.Error(), BaseCurrency: base, RateDate: rateDate}
ErrorResponse(base, res) ==
    [Settlements |-> <<>>, Bills |-> <<>>, BaseCurrency |-> base,
     RateDate |-> res.date, Error |-> res.err]

RECURSIVE ApplyBills(_, _)
\* The bill loop of calculate over a list of bills.
ApplyBills(bal, bills) ==
    IF bills = <<>> THEN bal
    ELSE ApplyBills(ApplyBill(bal, Head(bills)), Tail(bills))

\* calculate(req.People, convertedBills), its range loop visiting the ids in
\* `order`.
Calculate(pp, bills, order) ==
    SettleFrom(pp, ApplyBills([id \in pp |-> 0], bills), order)

\* The response of processCalculate once convertBillsToBase has returned res.
ProcessCalculateResponse(base, pp, res, order) ==
    IF res.err # NoErr
    THEN ErrorResponse(base, res)
    ELSE [Settlements |-> Calculate(pp, res.converted, order), Bills |-> res.converted,
          BaseCurrency |-> base, RateDate |-> res.date, Error |-> NoErr]

\* processCalculate goes on, alone, to its return.
Respond(c, res) ==
    IF ViaProcessCalculate(req[c].base)
    THEN \E order \in Orders(RequestPeople) :
             response' = [response EXCEPT ![c] =
                 ProcessCalculateResponse(req[c].base, RequestPeople, res, order)]
    ELSE UNCHANGED response

\* A front door calls convertBillsToBase(base, bills).
Call(c, base, bills) ==
    /\ rpc[c] = "idle"
    /\ rpc' = [rpc EXCEPT ![c] = "get"]
    /\ req' = [req EXCEPT ![c] = [base |-> base, bills |-> bills]]
    /\ UNCHANGED <<calcVars, lockVars, syncVars, procVars, errs, response, rateCache, now, entry, attempt, lastErr, result,
                   got, checkedAt, fetches, sets>>

\* entry, ok := rateCache.Get(baseLower)
Get(c) ==
    /\ rpc[c] = "get"
    /\ entry' = [entry EXCEPT ![c] = rateCache[BaseLower(c)]]
    /\ got' = [got EXCEPT ![c] = rateCache[BaseLower(c)]]
    /\ rpc' = [rpc EXCEPT ![c] = "check"]
    /\ UNCHANGED <<calcVars, lockVars, syncVars, procVars, errs, response, rateCache, now, req, attempt, lastErr, result,
                   checkedAt, fetches, sets>>

\* now := time.Now(); a fresh entry is used, otherwise fetchRates is called.
Check(c) ==
    /\ rpc[c] = "check"
    /\ checkedAt' = [checkedAt EXCEPT ![c] = now]
    /\ rpc' = [rpc EXCEPT ![c] =
                  IF entry[c] # NoEntry /\ Fresh(now, entry[c]) THEN "convert" ELSE "fetch"]
    /\ attempt' = [attempt EXCEPT ![c] = 0]
    /\ lastErr' = [lastErr EXCEPT ![c] = NoErr]
    /\ UNCHANGED <<calcVars, lockVars, syncVars, procVars, errs, response, rateCache, now, req, entry, result, got, fetches, sets>>

\* An attempt of fetchRates that keeps the first error as lastErr.
Fetch_KeepFirstErr(c, outcome) ==
    /\ rpc[c] = "fetch"
    /\ outcome \in FetchOutcomes(BaseLower(c), now)
    /\ fetches' = [fetches EXCEPT ![c] = @ + 1]
    /\ IF outcome.err = NoErr
       THEN /\ entry' = [entry EXCEPT ![c] = outcome.entry]
            /\ rpc' = [rpc EXCEPT ![c] = "store"]
            /\ UNCHANGED lastErr
       ELSE IF outcome.err = Panic
       THEN /\ rpc' = [rpc EXCEPT ![c] = "panic"]
            /\ UNCHANGED <<entry, lastErr>>
       ELSE /\ lastErr' = [lastErr EXCEPT ![c] =
                               IF @ = NoErr THEN outcome.err ELSE @]
            /\ rpc' = [rpc EXCEPT ![c] = "sleep"]
            /\ UNCHANGED entry
    /\ errs' = [errs EXCEPT ![c] =
                   IF outcome.err \in {NoErr, Panic} THEN @ ELSE Append(@, outcome.err)]
    /\ UNCHANGED <<calcVars, lockVars, syncVars, procVars, response, rateCache, now, req, attempt, result,
                   got, checkedAt, sets>>

\* fetchRates: entry, err := rateFetcher.Fetch(base); on success
\* entry.FetchedAt = time.Now().  A panic of parseRateResponse unwinds the
\* goroutine of the call: nothing returns.
Fetch(c, outcome) ==
    /\ rpc[c] = "fetch"
    /\ outcome \in FetchOutcomes(BaseLower(c), now)
    /\ fetches' = [fetches EXCEPT ![c] = @ + 1]
    /\ IF outcome.err = NoErr
       THEN /\ entry' = [entry EXCEPT ![c] = outcome.entry]
            /\ rpc' = [rpc EXCEPT ![c] = "store"]
            /\ UNCHANGED lastErr
       ELSE IF outcome.err = Panic
       THEN /\ rpc' = [rpc EXCEPT ![c] = "panic"]
            /\ UNCHANGED <<entry, lastErr>>
       ELSE /\ lastErr' = [lastErr EXCEPT ![c] = outcome.err]
            /\ rpc' = [rpc EXCEPT ![c] = "sleep"]
            /\ UNCHANGED entry
    /\ errs' = [errs EXCEPT ![c] =
                   IF outcome.err \in {NoErr, Panic} THEN @ ELSE Append(@, outcome.err)]
    /\ UNCHANGED <<calcVars, lockVars, syncVars, procVars, response, rateCache, now, req, attempt, result,
                   got, checkedAt, sets>>

\* fetchRates returning the fetched entry without writing it to the cache.
Store_NoWrite(c) ==
    /\ rpc[c] = "store"
    /\ sets' = [sets EXCEPT ![c] = @ + 1]
    /\ rpc' = [rpc EXCEPT ![c] = "fetched"]
    /\ UNCHANGED <<calcVars, lockVars, syncVars, procVars, errs, response, rateCache, now, req, entry, attempt, lastErr, result,
                   got, checkedAt, fetches>>

\* fetchRates: rateCache.Set(base, entry); return entry, nil
Store(c) ==
    /\ rpc[c] = "store"
    /\ rateCache' = [rateCache EXCEPT ![BaseLower(c)] = entry[c]]
    /\ sets' = [sets EXCEPT ![c] = @ + 1]
    /\ rpc' = [rpc EXCEPT ![c] = "fetched"]
    /\ UNCHANGED <<calcVars, lockVars, syncVars, procVars, errs, response, now, req, entry, attempt, lastErr, result,
                   got, checkedAt, fetches>>

\* The end of fetchRates with a caller that returns the error of a failed
\* refresh although it holds a stale entry.
Sleep_SurfaceError(c) ==
    /\ rpc[c] = "sleep"
    /\ attempt' = [attempt EXCEPT ![c] = @ + 1]
    /\ IF attempt[c] + 1 < 2
       THEN /\ rpc' = [rpc EXCEPT ![c] = "fetch"]
            /\ UNCHANGED result
       ELSE /\ rpc' = [rpc EXCEPT ![c] = "done"]
            /\ result' = [result EXCEPT ![c] =
                             [converted |-> <<>>, date |-> "", err |-> lastErr[c]]]
    /\ IF rpc'[c] = "done" THEN Respond(c, result'[c]) ELSE UNCHANGED response
    /\ UNCHANGED <<calcVars, lockVars, syncVars, procVars, errs, rateCache, now, req, entry, lastErr,
                   got, checkedAt, fetches, sets>>

\* The end of fetchRates with a caller that drops the error also when it
\* holds no entry, and goes on with the empty entry.
Sleep_AbsorbAlways(c) ==
    /\ rpc[c] = "sleep"
    /\ attempt' = [attempt EXCEPT ![c] = @ + 1]
    /\ rpc' = [rpc EXCEPT ![c] = IF attempt[c] + 1 < 2 THEN "fetch" ELSE "convert"]
    /\ UNCHANGED <<calcVars, lockVars, syncVars, procVars, errs, response, rateCache, now, req, entry, lastErr, result,
                   got, checkedAt, fetches, sets>>

\* fetchRates: time.Sleep(...); i++; the loop goes on while i < 2, then
\* fetchRates returns lastErr.  After a failed refresh convertBillsToBase
\* keeps the stale entry; with nothing cached it returns nil, "", err and
\* processCalculate builds its error response.
Sleep(c) ==
    /\ rpc[c] = "sleep"
    /\ attempt' = [attempt EXCEPT ![c] = @ + 1]
    /\ IF attempt[c] + 1 < 2
       THEN /\ rpc' = [rpc EXCEPT ![c] = "fetch"]
            /\ UNCHANGED result
       ELSE IF got[c] # NoEntry
       THEN /\ rpc' = [rpc EXCEPT ![c] = "convert"]
            /\ UNCHANGED result
       ELSE /\ rpc' = [rpc EXCEPT ![c] = "done"]
            /\ result' = [result EXCEPT ![c] =
                             [converted |-> <<>>, date |-> "", err |-> lastErr[c]]]
    /\ IF rpc'[c] = "done" THEN Respond(c, result'[c]) ELSE UNCHANGED response
    /\ UNCHANGED <<calcVars, lockVars, syncVars, procVars, errs, rateCache, now, req, entry, lastErr,
                   got, checkedAt, fetches, sets>>

\* convertBillsToBase after fetchRates succeeded: entry = fetched;
\* rateCache.Set(baseLower, fetched)
StoreAgain(c) ==
    /\ rpc[c] = "fetched"
    /\ rateCache' = [rateCache EXCEPT ![BaseLower(c)] = entry[c]]
    /\ sets' = [sets EXCEPT ![c] = @ + 1]
    /\ rpc' = [rpc EXCEPT ![c] = "convert"]
    /\ UNCHANGED <<calcVars, lockVars, syncVars, procVars, errs, response, now, req, entry, attempt, lastErr, result,
                   got, checkedAt, fetches>>

\* The loop over bills writing each AmountBase into the caller's slice
\* (for i := range bills { bills[i].AmountBase = ... }).
ConvertBills_InPlace(c) ==
    /\ rpc[c] = "convert"
    /\ result' = [result EXCEPT ![c] =
                     ConvertLoop(BaseLower(c), entry[c], req[c].bills, <<>>)]
    /\ req' = [req EXCEPT ![c].bills =
                  IF result'[c].err = NoErr THEN result'[c].converted ELSE @]
    /\ rpc' = [rpc EXCEPT ![c] = "done"]
    /\ Respond(c, result'[c])
    /\ UNCHANGED <<calcVars, lockVars, syncVars, procVars, errs, rateCache, now, entry, attempt, lastErr,
                   got, checkedAt, fetches, sets>>

\* rates := entry; the loop over bills; return.  processCalculate then
\* builds its response.
ConvertBills(c) ==
    /\ rpc[c] = "convert"
    /\ result' = [result EXCEPT ![c] =
                     ConvertLoop(BaseLower(c), entry[c], req[c].bills, <<>>)]
    /\ rpc' = [rpc EXCEPT ![c] = "done"]
    /\ Respond(c, result'[c])
    /\ UNCHANGED <<calcVars, lockVars, syncVars, procVars, errs, rateCache, now, req, entry, attempt, lastErr,
                   got, checkedAt, fetches, sets>>

\* A test seeds the cache: rateCache.Set(base, rateEntry{...}) with
\* FetchedAt: time.Now() and the rates it chooses (no rate for the base).
Seed(base) ==
    /\ \A c \in Calls : rpc[c] = "idle"
    /\ rateCache[base] = NoEntry
    /\ rateCache' = [rateCache EXCEPT ![base] =
                        [Rates |-> (IF base = twd THEN usd :> 1 ELSE twd :> 100),
                         Date |-> "2025-01-01", FetchedAt |-> now]]
    /\ UNCHANGED <<calcVars, lockVars, syncVars, procVars, errs, response, now, rpc, req, entry, attempt, lastErr, result,
                   got, checkedAt, fetches, sets>>

\* Time passes.
Tick ==
    /\ now + TickMinutes <= MaxTime
    /\ now' = now + TickMinutes
    /\ UNCHANGED <<calcVars, lockVars, syncVars, procVars, errs, response, rateCache, rpc, req, entry, attempt, lastErr, result,
                   got, checkedAt, fetches, sets>>

NoRequest == [base |-> <<>>, bills |-> <<>>]
NoBody == [json |-> FALSE, BaseCurrency |-> <<>>, People |-> {}, Bills |-> <<>>]
NoResult == [converted |-> <<>>, date |-> "", err |-> NoErr]

NoPrev == [BaseCurrency |-> <<>>, sets |-> 0]

(***************************************************************************)
(* processCalculate: from the request to the call of convertBillsToBase    *)
(***************************************************************************)
defaultBase == <<"T", "W", "D">>

\* The base codes of requests: none, blank, and codes in mixed case with
\* surrounding whitespace.
RequestCodes == {<<>>, <<" ", " ">>, <<" ", "t", "w", "d">>, <<"U", "s", "d", " ">>}

\* The requests: JSON of a CalculateRequest, and text that json.Unmarshal
\* rejects (shown with the fields it was meant to carry).
RequestBodies ==
    {[json |-> TRUE, BaseCurrency |-> code, People |-> RequestPeople, Bills |-> bills] :
        code \in RequestCodes, bills \in ConvBillLists}
    \cup {[json |-> FALSE, BaseCurrency |-> <<" ", "t", "w", "d">>, People |-> RequestPeople,
           Bills |-> bills] : bills \in ConvBillLists}

BaseCurrencyOf_AlwaysDefault(code) == defaultBase

\* base := strings.ToUpper(strings.TrimSpace(req.BaseCurrency));
\* if base == "" { base = defaultBase }
BaseCurrencyOf(code) ==
    IF ToUpper(TrimSpace(code)) = <<>> THEN defaultBase ELSE ToUpper(TrimSpace(code))

\* CalculateResponse{Error: "解析資料錯誤"}
DecodeErrorResponse ==
    [Settlements |-> <<>>, Bills |-> <<>>, BaseCurrency |-> <<>>, RateDate |-> "",
     Error |-> [kind |-> "decode", cur |-> <<>>]]

\* processCalculate(requestJSON) is called; the slot of an earlier request
\* that has returned or panicked is used again.
ProcessCalculate(c, rj) ==
    /\ rpc[c] \in {"idle", "done", "panic"}
    /\ rpc' = [rpc EXCEPT ![c] = "decode"]
    /\ requestJSON' = [requestJSON EXCEPT ![c] = rj]
    /\ prev' = [prev EXCEPT ![c] = [BaseCurrency |-> requestJSON[c].BaseCurrency,
                                     sets |-> sets[c]]]
    /\ req' = [req EXCEPT ![c] = NoRequest]
    /\ entry' = [entry EXCEPT ![c] = NoEntry]
    /\ attempt' = [attempt EXCEPT ![c] = 0]
    /\ lastErr' = [lastErr EXCEPT ![c] = NoErr]
    /\ result' = [result EXCEPT ![c] = NoResult]
    /\ response' = [response EXCEPT ![c] = NoResponse]
    /\ got' = [got EXCEPT ![c] = NoEntry]
    /\ checkedAt' = [checkedAt EXCEPT ![c] = 0]
    /\ fetches' = [fetches EXCEPT ![c] = 0]
    /\ errs' = [errs EXCEPT ![c] = <<>>]
    /\ sets' = [sets EXCEPT ![c] = 0]
    /\ UNCHANGED <<calcVars, lockVars, syncVars, rateCache, now, parsed>>

\* processCalculate that goes on with whatever a failed json.Unmarshal left.
Unmarshal_IgnoreError(c) ==
    /\ rpc[c] = "decode"
    /\ req' = [req EXCEPT ![c] = [base |-> BaseCurrencyOf(requestJSON[c].BaseCurrency),
                                  bills |-> requestJSON[c].Bills]]
    /\ rpc' = [rpc EXCEPT ![c] = "get"]
    /\ UNCHANGED response
    /\ UNCHANGED <<calcVars, lockVars, syncVars, procVars, errs, rateCache, now, entry, attempt,
                   lastErr, result, got, checkedAt, fetches, sets>>

\* json.Unmarshal([]byte(requestJSON), &req): on an error the error response
\* is returned; otherwise the base is worked out and
\* convertBillsToBase(base, req.Bills) is called.
Unmarshal(c) ==
    /\ rpc[c] = "decode"
    /\ IF ~requestJSON[c].json
       THEN /\ response' = [response EXCEPT ![c] = DecodeErrorResponse]
            /\ rpc' = [rpc EXCEPT ![c] = "done"]
            /\ UNCHANGED req
       ELSE /\ req' = [req EXCEPT ![c] = [base |-> BaseCurrencyOf(requestJSON[c].BaseCurrency),
                                          bills |-> requestJSON[c].Bills]]
            /\ rpc' = [rpc EXCEPT ![c] = "get"]
            /\ UNCHANGED response
    /\ UNCHANGED <<calcVars, lockVars, syncVars, procVars, errs, rateCache, now, entry, attempt,
                   lastErr, result, got, checkedAt, fetches, sets>>

\* The steps of a request after it was received.
RequestStep(c) ==
    \/ Unmarshal(c)
    \/ Get(c)
    \/ Check(c)
    \/ \E outcome \in FetchOutcomes(BaseLower(c), now) : Fetch(c, outcome)
    \/ Store(c)
    \/ Sleep(c)
    \/ StoreAgain(c)
    \/ ConvertBills(c)

\* Requests to /api/calculate, one after the other.
ProcNext ==
    \/ \E rj \in RequestBodies : ProcessCalculate(1, rj)
    \/ RequestStep(1)
    \/ Tick

ConvNext ==
    \/ \E c \in Calls, base \in BaseArgs, bills \in ConvBillLists : Call(c, base, bills)
    \/ \E c \in Calls : Get(c)
    \/ \E c \in Calls : Check(c)
    \/ \E c \in Calls : \E outcome \in FetchOutcomes(BaseLower(c), now) : Fetch(c, outcome)
    \/ \E c \in Calls : Store(c)
    \/ \E c \in Calls : Sleep(c)
    \/ \E c \in Calls : StoreAgain(c)
    \/ \E c \in Calls : ConvertBills(c)
    \/ \E base \in CacheKeys : Seed(base)
    \/ Tick

(***************************************************************************)
(* RateCache: Get and Set under the sync.RWMutex mu, one action per        *)
(* statement.  mu.Lock first shuts out new readers and other writers, then *)
(* waits for the readers that hold mu to leave.                            *)
(***************************************************************************)
Threads == {1, 2, 3}   \* goroutines calling Get and Set
GetThreads == {1, 2}   \* those that call Get
SetThreads == {2, 3}   \* those that call Set

NoOp == [kind |-> "", base |-> <<>>, e |-> NoEntry]
NoRet == [e |-> NoEntry, ok |-> FALSE]

\* The entries a caller may pass to Set.
SetEntries ==
    {[Rates |-> (usd :> 1), Date |-> d, FetchedAt |-> 0] : d \in {"2025-01-01", "2025-01-02"}}

\* A goroutine calls rc.Get(base).
CallGet(t, base) ==
    /\ tpc[t] = "idle"
    /\ tpc' = [tpc EXCEPT ![t] = "RLock"]
    /\ op' = [op EXCEPT ![t] = [kind |-> "Get", base |-> base, e |-> NoEntry]]
    /\ UNCHANGED <<calcVars, convVars, syncVars, procVars, readers, writer, ret, lastSet>>

\* A goroutine calls rc.Set(base, e).
CallSet(t, base, e) ==
    /\ tpc[t] = "idle"
    /\ tpc' = [tpc EXCEPT ![t] = "Lock"]
    /\ op' = [op EXCEPT ![t] = [kind |-> "Set", base |-> base, e |-> e]]
    /\ UNCHANGED <<calcVars, convVars, syncVars, procVars, readers, writer, ret, lastSet>>

\* rc.mu.RLock() that does not wait for a writer.
RLock_NoWait(t) ==
    /\ tpc[t] = "RLock"
    /\ readers' = readers \cup {t}
    /\ tpc' = [tpc EXCEPT ![t] = "read"]
    /\ UNCHANGED <<calcVars, convVars, syncVars, procVars, writer, op, ret, lastSet>>

\* rc.mu.RLock(): waits while a writer holds or has asked for mu.
RLock(t) ==
    /\ tpc[t] = "RLock"
    /\ writer = 0
    /\ readers' = readers \cup {t}
    /\ tpc' = [tpc EXCEPT ![t] = "read"]
    /\ UNCHANGED <<calcVars, convVars, syncVars, procVars, writer, op, ret, lastSet>>

\* A read that takes an entry older than the TTL for absent.
ReadMap_Expiring(t) ==
    /\ tpc[t] = "read"
    /\ ret' = [ret EXCEPT ![t] =
                  IF rateCache[op[t].base] # NoEntry /\ Fresh(now, rateCache[op[t].base])
                  THEN [e |-> rateCache[op[t].base], ok |-> TRUE]
                  ELSE NoRet]
    /\ tpc' = [tpc EXCEPT ![t] = "RUnlock"]
    /\ UNCHANGED <<calcVars, convVars, syncVars, procVars, readers, writer, op, lastSet>>

\* e, ok := rc.cache[base]
ReadMap(t) ==
    /\ tpc[t] = "read"
    /\ ret' = [ret EXCEPT ![t] =
                  [e |-> rateCache[op[t].base], ok |-> rateCache[op[t].base] # NoEntry]]
    /\ tpc' = [tpc EXCEPT ![t] = "RUnlock"]
    /\ UNCHANGED <<calcVars, convVars, syncVars, procVars, readers, writer, op, lastSet>>

\* defer rc.mu.RUnlock(); return e, ok
RUnlock(t) ==
    /\ tpc[t] = "RUnlock"
    /\ readers' = readers \ {t}
    /\ tpc' = [tpc EXCEPT ![t] = "idle"]
    /\ op' = [op EXCEPT ![t] = NoOp]
    /\ UNCHANGED <<calcVars, convVars, syncVars, procVars, writer, ret, lastSet>>

\* rc.mu.Lock(), first half: no other writer; new readers are shut out.
Lock(t) ==
    /\ tpc[t] = "Lock"
    /\ writer = 0
    /\ writer' = t
    /\ tpc' = [tpc EXCEPT ![t] = "LockWait"]
    /\ UNCHANGED <<calcVars, convVars, syncVars, procVars, readers, op, ret, lastSet>>

\* rc.mu.Lock(), second half: the readers holding mu have left.
LockWait(t) ==
    /\ tpc[t] = "LockWait"
    /\ readers = {}
    /\ tpc' = [tpc EXCEPT ![t] = "write"]
    /\ UNCHANGED <<calcVars, convVars, syncVars, procVars, readers, writer, op, ret, lastSet>>

\* rc.cache[base] = e
WriteMap(t) ==
    /\ tpc[t] = "write"
    /\ rateCache' = [rateCache EXCEPT ![op[t].base] = op[t].e]
    /\ lastSet' = [lastSet EXCEPT ![op[t].base] = op[t].e]
    /\ tpc' = [tpc EXCEPT ![t] = "Unlock"]
    /\ UNCHANGED <<calcVars, callVars, now, syncVars, procVars, readers, writer, op, ret>>

\* defer rc.mu.Unlock(); return
Unlock(t) ==
    /\ tpc[t] = "Unlock"
    /\ writer' = 0
    /\ tpc' = [tpc EXCEPT ![t] = "idle"]
    /\ op' = [op EXCEPT ![t] = NoOp]
    /\ UNCHANGED <<calcVars, convVars, syncVars, procVars, readers, ret, lastSet>>

CacheNext ==
    \/ \E t \in GetThreads, base \in CacheKeys : CallGet(t, base)
    \/ \E t \in SetThreads, base \in CacheKeys, e \in SetEntries : CallSet(t, base, e)
    \/ \E t \in Threads : RLock(t)
    \/ \E t \in Threads : ReadMap(t)
    \/ \E t \in Threads : RUnlock(t)
    \/ \E t \in Threads : Lock(t)
    \/ \E t \in Threads : LockWait(t)
    \/ \E t \in Threads : WriteMap(t)
    \/ \E t \in Threads : Unlock(t)
    \/ Tick

(***************************************************************************)
(* handleSync: GET returns the shared state, POST replaces it and returns  *)
(* it.  The handler locks stateMutex first and unlocks it on return, one   *)
(* action per statement in between.  LastUpdated is in the unit of now.    *)
(***************************************************************************)
Handlers == {1, 2}     \* concurrent requests to /api/sync

Methods == {"GET", "POST"}

\* projectState as the program initialises it.
InitialState == [People |-> <<>>, Bills |-> <<>>, BaseCurrency |-> "TWD", LastUpdated |-> 0]

\* The states clients post; LastUpdated is whatever the client sent.
PostedStates ==
    {[People |-> <<1>>, Bills |-> <<>>, BaseCurrency |-> "USD", LastUpdated |-> 99],
     [People |-> <<1, 2>>, Bills |-> <<1>>, BaseCurrency |-> "", LastUpdated |-> 0]}

\* r.Body: a body that cannot be read, one that is not JSON of a GlobalState,
\* and the JSON of a GlobalState.
SyncBodies ==
    {[read |-> FALSE, json |-> FALSE, state |-> InitialState],
     [read |-> TRUE, json |-> FALSE, state |-> InitialState]}
    \cup {[read |-> TRUE, json |-> TRUE, state |-> st] : st \in PostedStates}

NoSyncRequest == [method |-> "", body |-> [read |-> FALSE, json |-> FALSE, state |-> InitialState]]
NoSyncResponse == [status |-> 0, text |-> "", state |-> InitialState]
NoState == [People |-> <<>>, Bills |-> <<>>, BaseCurrency |-> "", LastUpdated |-> 0 - 1]

\* A request arrives: w.Header().Set(...)
HandleSync(h, method, b) ==
    /\ spc[h] = "idle"
    /\ spc' = [spc EXCEPT ![h] = "Lock"]
    /\ sreq' = [sreq EXCEPT ![h] = [method |-> method, body |-> b]]
    /\ sresp' = [sresp EXCEPT ![h] = NoSyncResponse]
    /\ wrote' = [wrote EXCEPT ![h] = NoState]
    /\ UNCHANGED <<calcVars, convVars, lockVars, procVars, setBack, projectState, stateMutex, stored>>

StateLock_NoWait(h) ==
    /\ spc[h] = "Lock"
    /\ stateMutex' = h
    /\ spc' = [spc EXCEPT ![h] = "method"]
    /\ UNCHANGED <<calcVars, convVars, lockVars, procVars, setBack, projectState, sreq, sresp, stored, wrote>>

\* stateMutex.Lock()
StateLock(h) ==
    /\ spc[h] = "Lock"
    /\ stateMutex = 0
    /\ stateMutex' = h
    /\ spc' = [spc EXCEPT ![h] = "method"]
    /\ UNCHANGED <<calcVars, convVars, lockVars, procVars, setBack, projectState, sreq, sresp, stored, wrote>>

\* The branch taken whatever the method: a GET with a body stores it.
ReadBody_AnyMethod(h) ==
    /\ spc[h] = "method"
    /\ IF ~sreq[h].body.read
       THEN /\ sresp' = [sresp EXCEPT ![h] = [status |-> 400, text |-> "invalid body",
                                               state |-> InitialState]]
            /\ spc' = [spc EXCEPT ![h] = "Unlock"]
            /\ UNCHANGED projectState
       ELSE IF ~sreq[h].body.json
       THEN /\ sresp' = [sresp EXCEPT ![h] = [status |-> 400, text |-> "invalid json",
                                               state |-> InitialState]]
            /\ spc' = [spc EXCEPT ![h] = "Unlock"]
            /\ UNCHANGED projectState
       ELSE /\ projectState' = sreq[h].body.state
            /\ spc' = [spc EXCEPT ![h] = "LastUpdated"]
            /\ UNCHANGED sresp
    /\ UNCHANGED <<calcVars, convVars, lockVars, procVars, setBack, stateMutex, sreq, stored, wrote>>

\* if r.Method == http.MethodPost { io.ReadAll; json.Unmarshal;
\* projectState = newState }: a body that cannot be read or decoded is
\* answered with 400 and the handler returns.
ReadBody(h) ==
    /\ spc[h] = "method"
    /\ IF sreq[h].method # "POST"
       THEN /\ spc' = [spc EXCEPT ![h] = "Encode"]
            /\ UNCHANGED <<projectState, sresp>>
       ELSE IF ~sreq[h].body.read
       THEN /\ sresp' = [sresp EXCEPT ![h] = [status |-> 400, text |-> "invalid body",
                                               state |-> InitialState]]
            /\ spc' = [spc EXCEPT ![h] = "Unlock"]
            /\ UNCHANGED projectState
       ELSE IF ~sreq[h].body.json
       THEN /\ sresp' = [sresp EXCEPT ![h] = [status |-> 400, text |-> "invalid json",
                                               state |-> InitialState]]
            /\ spc' = [spc EXCEPT ![h] = "Unlock"]
            /\ UNCHANGED projectState
       ELSE /\ projectState' = sreq[h].body.state
            /\ spc' = [spc EXCEPT ![h] = "LastUpdated"]
            /\ UNCHANGED sresp
    /\ UNCHANGED <<calcVars, convVars, lockVars, procVars, setBack, stateMutex, sreq, stored, wrote>>

\* A store that keeps the LastUpdated the client sent.
SetLastUpdated_KeepClient(h) ==
    /\ spc[h] = "LastUpdated"
    /\ projectState' = projectState
    /\ stored' = stored \cup {sreq[h].body.state}
    /\ wrote' = [wrote EXCEPT ![h] = sreq[h].body.state]
    /\ spc' = [spc EXCEPT ![h] = "Encode"]
    /\ UNCHANGED <<calcVars, convVars, lockVars, procVars, setBack, stateMutex, sreq, sresp>>

\* projectState.LastUpdated = time.Now().UnixMilli()
SetLastUpdated(h) ==
    /\ spc[h] = "LastUpdated"
    /\ projectState' = [projectState EXCEPT !.LastUpdated = now]
    /\ stored' = stored \cup {[sreq[h].body.state EXCEPT !.LastUpdated = now]}
    /\ wrote' = [wrote EXCEPT ![h] = [sreq[h].body.state EXCEPT !.LastUpdated = now]]
    /\ spc' = [spc EXCEPT ![h] = "Encode"]
    /\ UNCHANGED <<calcVars, convVars, lockVars, procVars, setBack, stateMutex, sreq, sresp>>

\* enc.Encode(projectState)
Encode(h) ==
    /\ spc[h] = "Encode"
    /\ sresp' = [sresp EXCEPT ![h] = [status |-> 200, text |-> "", state |-> projectState]]
    /\ spc' = [spc EXCEPT ![h] = "Unlock"]
    /\ UNCHANGED <<calcVars, convVars, lockVars, procVars, setBack, projectState, stateMutex, sreq, stored, wrote>>

\* defer stateMutex.Unlock(); return
StateUnlock(h) ==
    /\ spc[h] = "Unlock"
    /\ stateMutex' = 0
    /\ spc' = [spc EXCEPT ![h] = "idle"]
    /\ UNCHANGED <<calcVars, convVars, lockVars, procVars, setBack, projectState, sreq, sresp, stored, wrote>>

\* The wall clock of the server is set back (a clock synchronisation):
\* time.Now().UnixMilli() reads the wall clock, not the monotonic one.  One
\* such step is followed.
WallClockSetBack ==
    /\ ~setBack
    /\ now >= TickMinutes
    /\ now' = now - TickMinutes
    /\ setBack' = TRUE
    /\ UNCHANGED <<calcVars, callVars, rateCache, lockVars, procVars,
                   projectState, stateMutex, spc, sreq, sresp, stored, wrote>>

SyncNext ==
    \/ \E h \in Handlers, method \in Methods, b \in SyncBodies : HandleSync(h, method, b)
    \/ \E h \in Handlers : StateLock(h)
    \/ \E h \in Handlers : ReadBody(h)
    \/ \E h \in Handlers : SetLastUpdated(h)
    \/ \E h \in Handlers : Encode(h)
    \/ \E h \in Handlers : StateUnlock(h)
    \/ Tick
    \/ WallClockSetBack

\* No call of calculate or convertBillsToBase has begun;
\* rateCache = NewRateCache(): nothing is cached.
Init ==
    /\ cpc = "idle"
    /\ people = {}
    /\ balance = <<>>
    /\ creditors = <<>>
    /\ debtors = <<>>
    /\ i = 0
    /\ j = 0
    /\ settlements = <<>>
    /\ nbills = 0
    /\ only = NoBill
    /\ sawEmpty = FALSE
    /\ balanceSkip = <<>>
    /\ applied = NoApplied
    /\ rateCache = [b \in CacheKeys |-> NoEntry]
    /\ now = 0
    /\ rpc = [c \in Calls |-> "idle"]
    /\ req = [c \in Calls |-> NoRequest]
    /\ entry = [c \in Calls |-> NoEntry]
    /\ attempt = [c \in Calls |-> 0]
    /\ lastErr = [c \in Calls |-> NoErr]
    /\ result = [c \in Calls |-> NoResult]
    /\ response = [c \in Calls |-> NoResponse]
    /\ got = [c \in Calls |-> NoEntry]
    /\ checkedAt = [c \in Calls |-> 0]
    /\ fetches = [c \in Calls |-> 0]
    /\ errs = [c \in Calls |-> <<>>]
    /\ sets = [c \in Calls |-> 0]
    /\ readers = {}
    /\ writer = 0
    /\ tpc = [t \in Threads |-> "idle"]
    /\ op = [t \in Threads |-> NoOp]
    /\ ret = [t \in Threads |-> NoRet]
    /\ lastSet = [b \in CacheKeys |-> NoEntry]
    /\ projectState = InitialState
    /\ stateMutex = 0
    /\ spc = [h \in Handlers |-> "idle"]
    /\ sreq = [h \in Handlers |-> NoSyncRequest]
    /\ sresp = [h \in Handlers |-> NoSyncResponse]
    /\ stored = {}
    /\ wrote = [h \in Handlers |-> NoState]
    /\ setBack = FALSE
    /\ requestJSON = [c \in Calls |-> NoBody]
    /\ prev = [c \in Calls |-> NoPrev]
    /\ parsed = NoParsed

CalcNext ==
    \/ \E pp \in PeopleSets : Start(pp)
    \/ \E bill \in BillUniverse : ProcessBill(bill)
    \/ \E order \in Orders(DOMAIN balance) : Partition(order)
    \/ GreedyStep
    \/ Return

\* calculate alone: the cache is empty and no conversion is called.
SpecCalc == Init /\ [][CalcNext]_vars

HugeNext ==
    \/ \E pp \in PeopleSets : Start(pp)
    \/ \E bill \in HugeBills : ProcessBill(bill)
    \/ \E order \in Orders(DOMAIN balance) : Partition(order)
    \/ GreedyStep
    \/ Return

\* calculate alone, on bills whose amounts are near the largest float64.
SpecHuge == Init /\ [][HugeNext]_vars

\* convertBillsToBase alone, up to two calls at a time: calculate is not called.
SpecConv == Init /\ [][ConvNext]_vars

SpecCache == Init /\ [][CacheNext]_vars

\* processCalculate alone, request after request.
SpecProc == Init /\ [][ProcNext]_vars

\* parseRateResponse alone.
ParseNext ==
    \/ \E base \in ParseArgs, body \in ParseBodies : ParseCall(base, body)
    \/ Tick

SpecParse == Init /\ [][ParseNext]_vars

\* handleSync alone, up to two requests at a time.
SpecSync == Init /\ [][SyncNext]_vars

\* The steps of fetchRates within a call.
FetchRatesStep(c) ==
    \/ \E outcome \in FetchOutcomes(BaseLower(c), now) : Fetch(c, outcome)
    \/ Store(c)
    \/ Sleep(c)

\* One request at a time: a single call, the test's seeding and the clock.
SeqNext ==
    \/ \E base \in BaseArgs, bills \in ConvBillLists : Call(1, base, bills)
    \/ Get(1)
    \/ Check(1)
    \/ \E outcome \in FetchOutcomes(BaseLower(1), now) : Fetch(1, outcome)
    \/ Store(1)
    \/ Sleep(1)
    \/ StoreAgain(1)
    \/ ConvertBills(1)
    \/ \E base \in CacheKeys : Seed(base)
    \/ Tick

\* The goroutine of the call keeps running: rateFetcher.Fetch returns (the
\* HTTP client has a 5 second timeout), time.Sleep ends, Set gets the lock.
SpecSeq == Init /\ [][SeqNext]_vars /\ WF_vars(FetchRatesStep(1))

\* A single request to /api/calculate, the cache empty or seeded.
OnceNext ==
    \/ rpc[1] = "idle" /\ \E rj \in RequestBodies : ProcessCalculate(1, rj)
    \/ RequestStep(1)
    \/ \E base \in CacheKeys : Seed(base)
    \/ Tick

\* The steps of a request up to the conversion loop.
BeforeConvert(c) ==
    \/ Unmarshal(c)
    \/ Get(c)
    \/ Check(c)
    \/ FetchRatesStep(c)
    \/ StoreAgain(c)

\* The goroutine of a request keeps running: rateFetcher.Fetch returns (the
\* HTTP client has a 5 second timeout), time.Sleep ends, the cache locks are
\* granted, and the loop over the bills, which waits for nothing, ends.
SpecOnce ==
    /\ Init /\ [][OnceNext]_vars
    /\ WF_vars(BeforeConvert(1))
    /\ []<>(rpc[1] # "convert")

(***************************************************************************)
(* Properties of calculate                                                 *)
(***************************************************************************)
Abs(x) == IF x < 0 THEN 0 - x ELSE x

RECURSIVE SumAmounts(_)
SumAmounts(ss) == IF ss = <<>> THEN 0 ELSE Head(ss).Amount + SumAmounts(Tail(ss))

\* Total of the settlements paid to id, and paid by id.
Received(ss, id) == SumAmounts(SelectSeq(ss, LAMBDA s : s.creditorId = id))
Paid(ss, id) == SumAmounts(SelectSeq(ss, LAMBDA s : s.debtorId = id))

RECURSIVE SumBalances(_, _)
SumBalances(bal, S) ==
    IF S = {} THEN 0
    ELSE LET id == CHOOSE x \in S : TRUE
         IN bal[id] + SumBalances(bal, S \ {id})

\* The keys of a balance map in ascending order.
Ascending(S) == CHOOSE s \in Orders(S) : \A k \in 1..(Len(s) - 1) : s[k] < s[k + 1]

Range(s) == {s[k] : k \in 1..Len(s)}

\* C1: when calculate has returned, every creditor (balance > 0.01) has been
\* paid settlements summing to their balance within 0.01, and every debtor
\* (balance < -0.01) pays settlements summing to their debt within 0.01.
C1_SettlementsCoverBalances ==
    cpc = "done" =>
        \A id \in DOMAIN balance :
            /\ IsCreditor(balance[id]) =>
                   Abs(Received(settlements, id) - balance[id]) <= Eps
            /\ IsDebtor(balance[id]) =>
                   Abs(Paid(settlements, id) + balance[id]) <= Eps

\* C2: a bill without participants changes no balance: the balances are those
\* of the call without such bills, and the settlements returned are
\* settlements that call returns.
C2_EmptyBillChangesNothing ==
    /\ balance = balanceSkip
    /\ cpc = "done" =>
           \E order \in Orders(DOMAIN balanceSkip) :
               settlements = SettleFrom(people, balanceSkip, order)

C2_Witness ==
    /\ cpc = "done"
    /\ sawEmpty
    /\ nbills = 2
    /\ settlements # <<>>

\* C3: after each bill, and after all of them, the balances over every id of
\* the balance map sum to zero (the bills divide evenly by their participant
\* count).
C3_BalancesSumToZero ==
    SumBalances(balance, DOMAIN balance) = 0

C3_Witness ==
    /\ cpc = "done"
    /\ nbills = 2
    /\ \E id \in DOMAIN balance : id \notin people /\ balance[id] # 0

\* C4: every run of calculate on the same input gives each id the same total
\* received and the same total paid as the run whose range loop visits the
\* ids in ascending order.
C4_RunsBalanceEquivalent ==
    cpc = "done" =>
        LET ref == SettleFrom(people, balance, Ascending(DOMAIN balance))
        IN \A id \in Ids :
               /\ Received(settlements, id) = Received(ref, id)
               /\ Paid(settlements, id) = Paid(ref, id)

C6_SingleBillPrecondition ==
    /\ nbills = 1
    /\ Len(only.Participants) >= 2
    /\ Cardinality(Range(only.Participants)) = Len(only.Participants)
    /\ Range(only.Participants) \subseteq people
    /\ only.PaidBy \in Range(only.Participants)
    /\ BillAmount(only) \div Len(only.Participants) > Eps

C6_SingleBillSplit ==
    (cpc = "done" /\ C6_SingleBillPrecondition) =>
        LET n == Len(only.Participants)
            others == Range(only.Participants) \ {only.PaidBy}
        IN /\ Len(settlements) = n - 1
           /\ {settlements[k].debtorId : k \in 1..Len(settlements)} = others
           /\ \A k \in 1..Len(settlements) :
                  /\ settlements[k].creditorId = only.PaidBy
                  /\ settlements[k].To = Names[only.PaidBy]
                  /\ settlements[k].From = Names[settlements[k].debtorId]
                  /\ Abs(settlements[k].Amount - BillAmount(only) \div n) <= Eps

C6_Witness ==
    /\ cpc = "done"
    /\ C6_SingleBillPrecondition
    /\ only = TestBill300
    /\ Len(settlements) = 2

\* The balances of the second case of TestCalculate.
OffsetBalance ==
    ApplyBill(ApplyBill([id \in {1, 2, 3} |-> 0], TestBill300), TestBill150)

\* C7: a person whose balance lies within 0.01 of zero (inclusive) is in
\* neither list and in no settlement; when 300 paid by Alice and 150 paid by
\* Bob are each split over Alice, Bob and Charlie, the only settlement is
\* Charlie to Alice, 150.
C7_SettledPeopleExcluded ==
    /\ cpc \in {"greedy", "done"} =>
           \A id \in DOMAIN balance :
               Abs(balance[id]) <= Eps =>
                   /\ \A k \in 1..Len(creditors) : creditors[k].id # id
                   /\ \A k \in 1..Len(debtors) : debtors[k].id # id
                   /\ \A k \in 1..Len(settlements) :
                          /\ settlements[k].creditorId # id
                          /\ settlements[k].debtorId # id
    /\ (cpc = "done" /\ people = {1, 2, 3} /\ balance = OffsetBalance) =>
           settlements = <<[From |-> "Charlie", To |-> "Alice", Amount |-> 30000,
                            debtorId |-> 3, creditorId |-> 1]>>

C7_Witness ==
    /\ cpc = "done"
    /\ people = {1, 2, 3}
    /\ nbills = 2
    /\ balance = OffsetBalance
    /\ balance[2] = 0
    /\ Len(settlements) = 1

\* C8: with an empty bill list calculate returns no settlement, whoever the
\* people are.
C8_NoBillsNoSettlements ==
    (cpc = "done" /\ nbills = 0) => settlements = <<>>

C8_Witness ==
    /\ cpc = "done"
    /\ nbills = 0
    /\ people = {1, 2, 3}

FoundFresh(c) ==
    /\ rpc[c] \in {"convert", "fetch", "store", "sleep", "fetched", "done"}
    /\ got[c] # NoEntry
    /\ checkedAt[c] - got[c].FetchedAt < TTL

\* C10: a call that finds a cached entry for its base younger than 30 minutes
\* issues no fetch and no cache write, and what it returns is the conversion
\* with the cached rates, with the cached date.
C10_FreshEntryUsedAsIs ==
    \A c \in Calls :
        FoundFresh(c) =>
            /\ fetches[c] = 0
            /\ sets[c] = 0
            /\ rpc[c] \in {"convert", "done"}
            /\ entry[c] = got[c]
            /\ rpc[c] = "done" =>
                   /\ result[c] = ConvertLoop(ToLower(req[c].base), got[c], req[c].bills, <<>>)
                   /\ result[c].date = got[c].Date

C10_Witness ==
    \E c \in Calls :
        /\ FoundFresh(c)
        /\ rpc[c] = "done"
        /\ checkedAt[c] - got[c].FetchedAt = TickMinutes
        /\ result[c].err = NoErr
        /\ Len(result[c].converted) = 2
        /\ result[c].converted[2].AmountBase = 10 * result[c].converted[2].Amount

\* The call found a cached entry aged 30 minutes or more.
FoundStale(c) ==
    /\ got[c] # NoEntry
    /\ rpc[c] \in {"convert", "fetch", "store", "sleep", "fetched", "done"}
    /\ checkedAt[c] - got[c].FetchedAt >= TTL

\* The error of a failed fetch (transport, HTTP status, parse).
IsFetchErr(err) == err.kind \in {"network", "http", "parse"}

\* No other call for the same base has written the cache.
OnlyWriter(c) ==
    \A d \in Calls \ {c} : sets[d] = 0 \/ BaseLower(d) # BaseLower(c)

\* The call has returned after both attempts of fetchRates failed.
FetchFailed(c) == rpc[c] = "done" /\ attempt[c] = 2

\* C11: a call that found a stale entry and whose refresh failed returns no
\* fetch error: it returns the conversion with the stale rates and the stale
\* date, and it has written nothing to the cache, which still holds the stale
\* entry with its FetchedAt (unless another call replaced it).
C11_StaleKeptWhenRefreshFails ==
    \A c \in Calls :
        FoundStale(c) /\ FetchFailed(c) =>
            /\ ~IsFetchErr(result[c].err)
            /\ result[c] = ConvertLoop(BaseLower(c), got[c], req[c].bills, <<>>)
            /\ result[c].date = got[c].Date
            /\ sets[c] = 0
            /\ OnlyWriter(c) => rateCache[BaseLower(c)] = got[c]

C11_Witness ==
    \E c \in Calls :
        /\ FoundStale(c)
        /\ FetchFailed(c)
        /\ fetches[c] = 2
        /\ lastErr[c].kind = "parse"
        /\ result[c].err = NoErr
        /\ Len(result[c].converted) = 2
        /\ rateCache[BaseLower(c)] = got[c]

\* The call's local entry is a table that a fetch for its base returned
\* after the call read the clock.
FetchedSince(c) ==
    /\ entry[c].FetchedAt \in checkedAt[c]..now
    /\ [err |-> NoErr, entry |-> entry[c]]
           \in FetchOutcomes(BaseLower(c), entry[c].FetchedAt)

\* The call has returned after an attempt of fetchRates succeeded.
FetchSucceeded(c) == rpc[c] = "done" /\ fetches[c] > 0 /\ attempt[c] < 2

FoundNone(c) == rpc[c] \notin {"idle", "get"} /\ got[c] = NoEntry

\* C13: a call that found no entry and whose fetch failed returns the error of
\* the fetch, no converted bills and no date, and has written nothing: the
\* cache still has no entry for the base (unless another call stored one).
\* A call that found no entry and whose fetch succeeded has written the
\* fetched table under the base and converts with it.
C13_NoEntryFetchErrorOrStore ==
    /\ [](\A c \in Calls :
            /\ FoundNone(c) /\ FetchFailed(c) =>
                   /\ IsFetchErr(result[c].err)
                   /\ result[c] = [converted |-> <<>>, date |-> "", err |-> lastErr[c]]
                   /\ fetches[c] = 2
                   /\ sets[c] = 0
                   /\ OnlyWriter(c) => rateCache[BaseLower(c)] = NoEntry
            /\ FoundNone(c) /\ FetchSucceeded(c) =>
                   /\ FetchedSince(c)
                   /\ sets[c] = 2
                   /\ result[c] = ConvertLoop(BaseLower(c), entry[c], req[c].bills, <<>>))
    /\ [][\A c \in Calls :
            FoundNone(c) /\ sets'[c] # sets[c] =>
                /\ rateCache'[BaseLower(c)] = entry[c]
                /\ FetchedSince(c)]_vars

C13_Witness ==
    /\ \E c \in Calls :
           /\ FoundNone(c)
           /\ FetchFailed(c)
           /\ result[c].err.kind = "http"
           /\ rateCache[BaseLower(c)] = NoEntry
    /\ \E c \in Calls :
           /\ FoundNone(c)
           /\ FetchSucceeded(c)
           /\ result[c].err = NoErr
           /\ rateCache[BaseLower(c)] = entry[c]

\* C14: a call returns the error of a failed fetch only when, at that moment,
\* the cache holds no entry for its base; an entry present then, also one a
\* concurrent call stored during the fetch, is used instead.
C14_FetchErrorOnlyWithoutEntry ==
    [][\A c \in Calls :
          rpc[c] # "done" /\ rpc'[c] = "done" /\ IsFetchErr(result'[c].err) =>
              rateCache[BaseLower(c)] = NoEntry]_vars

\* convertBillsToBase has returned after resolving a rate table (entry[c]).
Resolved(c) == rpc[c] = "done" /\ ~(FoundNone(c) /\ FetchFailed(c))

\* The positions of the bills whose currency, trimmed and lower-cased, is not
\* empty, is not the base, and has no rate or the rate 0 in the table.
Offending(c) ==
    {k \in 1..Len(req[c].bills) :
        LET cur == ToLower(TrimSpace(req[c].bills[k].Currency))
        IN /\ cur # <<>>
           /\ cur # ToLower(req[c].base)
           /\ \/ cur \notin DOMAIN entry[c].Rates
              \/ entry[c].Rates[cur] = 0}

\* C15: when a bill's currency has no rate, or the rate 0, in the resolved
\* table, convertBillsToBase returns an error naming that currency (the first
\* such bill's, in upper case), no converted bill at all, and the table's
\* date; processCalculate then answers with that error and date, without
\* settlements and without bills.
C15_MissingRateAbortsConversion ==
    \A c \in Calls :
        Resolved(c) /\ Offending(c) # {} =>
            LET k == CHOOSE x \in Offending(c) : \A y \in Offending(c) : x <= y
            IN /\ result[c].err =
                      [kind |-> "missing",
                       cur |-> ToUpper(ToLower(TrimSpace(req[c].bills[k].Currency)))]
               /\ result[c].converted = <<>>
               /\ result[c].date = entry[c].Date
               /\ ViaProcessCalculate(req[c].base) =>
                      /\ response[c].Settlements = <<>>
                      /\ response[c].Bills = <<>>
                      /\ response[c].Error = result[c].err
                      /\ response[c].RateDate = entry[c].Date
                      /\ response[c].BaseCurrency = req[c].base

C15_Witness ==
    \E c \in Calls :
        /\ Resolved(c)
        /\ Offending(c) = {2}
        /\ eur \in DOMAIN entry[c].Rates
        /\ entry[c].Rates[eur] = 0
        /\ entry[c].Date = "2025-01-02"
        /\ response[c].Error.cur = <<"E", "U", "R">>
        /\ response[c].RateDate = "2025-01-02"

\* C16: on success every returned bill has AmountBase = Amount when its
\* currency, trimmed and lower-cased, is empty or the lower-cased base, and
\* AmountBase = Amount / rate[currency] otherwise (AmountBase times the rate
\* is the amount); with usd at 0.1 under twd, 10 USD become 100.
C16_AmountBaseByRate ==
    \A c \in Calls :
        Resolved(c) /\ result[c].err = NoErr =>
            /\ Len(result[c].converted) = Len(req[c].bills)
            /\ \A k \in 1..Len(req[c].bills) :
                   LET bill == req[c].bills[k]
                       cur == ToLower(TrimSpace(bill.Currency))
                       out == result[c].converted[k].AmountBase
                   IN IF cur = <<>> \/ cur = ToLower(req[c].base)
                      THEN out = bill.Amount
                      ELSE out * entry[c].Rates[cur] = bill.Amount * One

C16_Witness ==
    \E c \in Calls :
        /\ Resolved(c)
        /\ result[c].err = NoErr
        /\ BaseLower(c) = twd
        /\ entry[c].Rates[usd] = 1
        /\ req[c].bills[1].Currency = <<>>
        /\ result[c].converted[1].AmountBase = 1000
        /\ req[c].bills[2].Currency = <<" ", "u", "s", "d", " ">>
        /\ req[c].bills[2].Amount = 2000
        /\ result[c].converted[2].AmountBase = 20000

\* C17: an invocation of fetchRates calls the rate source at most twice; an
\* attempt is made only when every earlier attempt of the invocation failed;
\* when both attempts fail, the error it returns is that of the second
\* attempt; and it always comes to its end: its return, or the panic of the
\* parser on a null rate table.
C17_AtMostTwoAttempts ==
    /\ [](/\ fetches[1] <= 2
          /\ Len(errs[1]) <= fetches[1]
          /\ fetches[1] <= Len(errs[1]) + 1
          /\ Len(errs[1]) = 2 => lastErr[1] = errs[1][2]
          /\ FoundNone(1) /\ FetchFailed(1) =>
                 Len(errs[1]) = 2 /\ result[1].err = errs[1][2])
    /\ [][fetches'[1] # fetches[1] =>
              /\ fetches'[1] = fetches[1] + 1
              /\ Len(errs[1]) = fetches[1]]_vars
    /\ (rpc[1] = "fetch" ~> rpc[1] \in {"fetched", "convert", "done", "panic"})

C17_Witness ==
    /\ FoundNone(1)
    /\ FetchFailed(1)
    /\ fetches[1] = 2
    /\ errs[1] = <<[kind |-> "network", cur |-> <<>>], [kind |-> "parse", cur |-> <<>>]>>
    /\ result[1].err.kind = "parse"

\* C18: the waits of fetchRates lie between attempts: every wait is followed
\* by a further attempt, none by the return of the error.
C18_WaitsOnlyBetweenAttempts ==
    [][rpc[1] = "sleep" /\ rpc'[1] # "sleep" => rpc'[1] = "fetch"]_vars

(***************************************************************************)
(* Properties of RateCache                                                 *)
(***************************************************************************)
\* The goroutine is between RLock and RUnlock, where Get reads the map.
InGet(t) == tpc[t] \in {"read", "RUnlock"}

\* The goroutine is between Lock and Unlock, where Set writes the map.
InSet(t) == tpc[t] \in {"write", "Unlock"}

\* C19: while a Set is at the map, no other Set and no Get is at it: no
\* reachable state has a writer together with a reader or with another
\* writer.  (Several Gets may be at the map together.)
C19_WriterExcludesAll ==
    \A t \in Threads :
        InSet(t) =>
            /\ writer = t
            /\ readers = {}
            /\ \A u \in Threads \ {t} : ~InGet(u) /\ ~InSet(u)

C19_Witness ==
    /\ tpc[3] = "write"
    /\ tpc[1] = "RLock"
    /\ tpc[2] = "Lock"
    /\ op[1].base = op[3].base
    /\ op[2].base = op[3].base

\* C20: Get(base) returns the entry of the latest Set(base, ...) whatever its
\* age, and absent only when there has been none; a base that has been Set
\* stays in the map: no step removes or expires its entry.
C20_GetReturnsLatestSet ==
    /\ [](/\ rateCache = lastSet
          /\ \A t \in Threads :
                 tpc[t] = "RUnlock" =>
                     /\ ret[t].e = lastSet[op[t].base]
                     /\ ret[t].ok = (lastSet[op[t].base] # NoEntry))
    /\ [][\A b \in CacheKeys : rateCache[b] # NoEntry => rateCache'[b] # NoEntry]_vars

C20_Witness ==
    \E t \in Threads :
        /\ tpc[t] = "RUnlock"
        /\ ret[t].ok
        /\ ret[t].e.Date = "2025-01-02"
        /\ now - ret[t].e.FetchedAt >= TTL
        /\ op[t].base = twd
        /\ rateCache[usd] = NoEntry


(***************************************************************************)
(* Properties of handleSync                                                *)
(***************************************************************************)
\* The positions of handleSync between stateMutex.Lock and the deferred Unlock.
InHandler(h) == spc[h] \in {"method", "LastUpdated", "Encode", "Unlock"}

\* The request has encoded a state into its response.
Answered(h) == sresp[h].status = 200

\* C21: handleSync holds stateMutex over its whole read-then-write, so under
\* any interleaving of concurrent requests the state a POST encodes in its
\* response is exactly the state that POST stored, and the state a GET
\* returns is one that a single POST stored, or the initial state.
C21_ResponseIsOneStoredState ==
    /\ \A h \in Handlers : InHandler(h) => stateMutex = h
    /\ \A h \in Handlers :
        Answered(h) =>
            IF sreq[h].method = "POST"
            THEN sresp[h].state = wrote[h] /\ wrote[h] \in stored
            ELSE sresp[h].state \in stored \cup {InitialState}

\* A POST has answered while another POST waits for the mutex and a
\* different state was stored before.
C21_Witness ==
    /\ spc[1] = "Unlock" /\ sreq[1].method = "POST" /\ Answered(1)
    /\ spc[2] = "Lock" /\ sreq[2].method = "POST" /\ sreq[2].body.json
    /\ sreq[2].body.state # sreq[1].body.state
    /\ \E st \in stored : st # wrote[1]


(***************************************************************************)
(* Properties of processCalculate                                          *)
(***************************************************************************)
\* The request in slot c could not be decoded.
Undecodable(c) == rpc[c] \in {"decode", "done"} /\ ~requestJSON[c].json

\* processCalculate has returned for the request in slot c.
Returned(c) == rpc[c] = "done"

\* C22: when the request cannot be decoded, processCalculate returns a
\* response with a non-empty error and without any partial computation: no
\* rate is fetched, the cache is neither read nor changed, and the response
\* has no bills and no settlements.
C22_DecodeFailureDoesNothing ==
    /\ [](Undecodable(1) /\ Returned(1) =>
            /\ response[1].Error # NoErr
            /\ response[1].Settlements = <<>>
            /\ response[1].Bills = <<>>
            /\ fetches[1] = 0 /\ sets[1] = 0
            /\ got[1] = NoEntry /\ result[1] = NoResult)
    /\ [][Undecodable(1)' => rateCache' = rateCache /\ fetches'[1] = 0]_vars

\* An undecodable request that carried bills has been answered while the
\* cache holds what an earlier request stored.
C22_Witness ==
    /\ Undecodable(1) /\ Returned(1)
    /\ requestJSON[1].Bills # <<>>
    /\ prev[1].sets > 0
    /\ rateCache[twd] # NoEntry


\* The three ways a request fails: it cannot be decoded, no entry was cached
\* and both attempts of the fetch failed, or a bill has no usable rate.
DecodeFailed(c) == ~requestJSON[c].json
NoRates(c) == requestJSON[c].json /\ got[c] = NoEntry /\ attempt[c] = 2
MissingRate(c) == requestJSON[c].json /\ ~NoRates(c) /\ Offending(c) # {}
Failed(c) == DecodeFailed(c) \/ NoRates(c) \/ MissingRate(c)

\* C23: every call of processCalculate returns (none ends in a panic), with
\* exactly one response (written in the returning step and at no other time); no
\* response has both a non-empty error and settlements; every failure
\* (decode, fetch without a cached entry, missing rate) gives an error
\* response without settlements, and every success gives the settlements of
\* calculate over the converted bills with an empty error.
C23_OneResponseErrorOrSettlements ==
    /\ [](rpc[1] # "panic")
    /\ (rpc[1] = "decode") ~> Returned(1)
    /\ [][/\ (~Returned(1) /\ Returned(1)') => response'[1] # NoResponse
          /\ response'[1] # response[1] =>
                \/ ~Returned(1) /\ Returned(1)'
                \/ rpc'[1] = "decode" /\ response'[1] = NoResponse]_vars
    /\ [](Returned(1) =>
            /\ ~(response[1].Error # NoErr /\ response[1].Settlements # <<>>)
            /\ Failed(1) => response[1].Error # NoErr /\ response[1].Settlements = <<>>
            /\ ~Failed(1) =>
                /\ response[1].Error = NoErr
                /\ response[1].Bills = result[1].converted
                /\ \E order \in Orders(RequestPeople) :
                       response[1].Settlements =
                           Calculate(RequestPeople, result[1].converted, order))

\* A request code with the whitespace around it and its letter case removed.
Normalised(code) == ToLower(TrimSpace(code))

\* The cache key the claim gives a request code.
KeyOf(code) == IF Normalised(code) = <<>> THEN twd ELSE Normalised(code)

\* The request in slot c was decoded and its base worked out.
Decoded(c) == requestJSON[c].json /\ rpc[c] \notin {"idle", "decode"}

\* C24: the base currency of a request is its trimmed, upper-cased code, or
\* TWD when the code is blank after trimming; it is the base the response
\* reports; the cache entry the request reads and writes is the one keyed by
\* the lower-cased base, so request codes that differ only in letter case or
\* surrounding whitespace read and write the same entry.
C24_BaseNormalisedAndKeyed ==
    /\ [](Decoded(1) =>
            /\ req[1].base = IF TrimSpace(requestJSON[1].BaseCurrency) = <<>>
                             THEN <<"T", "W", "D">>
                             ELSE ToUpper(TrimSpace(requestJSON[1].BaseCurrency))
            /\ ToLower(req[1].base) = KeyOf(requestJSON[1].BaseCurrency)
            /\ Returned(1) => response[1].BaseCurrency = req[1].base)
    /\ [][Decoded(1)' =>
            /\ \A k \in CacheKeys :
                   rateCache'[k] # rateCache[k] => k = KeyOf(requestJSON[1].BaseCurrency)
            /\ got'[1] # got[1] => got'[1] = rateCache[KeyOf(requestJSON[1].BaseCurrency)]]_vars
    /\ [](\A c1, c2 \in RequestCodes :
            Normalised(c1) = Normalised(c2) =>
                ToLower(BaseCurrencyOf(c1)) = ToLower(BaseCurrencyOf(c2)))

\* A request with a blank code has read the entry that the request before
\* it, with the code " twd", stored.
C24_Witness ==
    /\ Decoded(1) /\ requestJSON[1].BaseCurrency = <<" ", " ">>
    /\ got[1] # NoEntry
    /\ prev[1].BaseCurrency = <<" ", "t", "w", "d">> /\ prev[1].sets > 0
    /\ rateCache[usd] = NoEntry


(***************************************************************************)
(* Properties of parseRateResponse and of a fetch attempt                  *)
(***************************************************************************)
\* parseRateResponse was called and returned a table.
ParsedOk == parsed.base # <<>> /\ parsed.out.err = NoErr

\* C25: every table a successful parseRateResponse returns maps the
\* lower-cased base to exactly 1, whatever rate the remote gave for the base,
\* keeps the remote's rate for every other code, and keeps the remote's
\* date; the base key is matched lower-cased whatever the case of the base
\* argument.
C25_ParsedTableHasBaseAtOne ==
    /\ ParsedOk =>
        LET baseKey == ToLower(parsed.base)
            rates == parsed.out.entry.Rates
        IN /\ parsed.body.key = baseKey
           /\ DOMAIN rates = DOMAIN parsed.body.rates \cup {baseKey}
           /\ rates[baseKey] = One
           /\ \A code \in DOMAIN parsed.body.rates \ {baseKey} :
                  rates[code] = parsed.body.rates[code]
           /\ parsed.out.entry.Date = parsed.body.date
    /\ parsed.base # <<>> /\ parsed.body.key = ToLower(parsed.base) /\ ~parsed.body.null
            => ParsedOk

\* parseRateResponse("TWD", ...) on a body keyed twd whose table gives twd
\* the rate 0.7 returned a table with twd at 1 and usd as the remote gave it.
C25_Witness ==
    /\ ParsedOk
    /\ parsed.base = <<"T", "W", "D">>
    /\ parsed.body.rates = (usd :> 3 @@ twd :> 7)
    /\ parsed.out.entry.Rates = (usd :> 3 @@ twd :> One)
    /\ parsed.out.entry.Date = "2025-12-06"


\* An attempt of the call in slot c fails in this step: Fetch returns an error.
AttemptFails(c) == rpc[c] = "fetch" /\ Len(errs'[c]) = Len(errs[c]) + 1

\* C26: parseRateResponse fails when the response has no entry keyed by the
\* lower-cased base, and a fetch whose transport call errors or whose HTTP
\* status is not 200 fails; in each of these cases no rate table is returned
\* and nothing is written to the cache by that attempt; a response that only
\* lacks the date field still succeeds, with an empty date.
C26_FailedAttemptReturnsNothing ==
    /\ [](\A base \in ParseArgs \cup BaseArgs :
          \A b \in ParseBodies \cup RemoteBodies(twd) \cup RemoteBodies(usd) :
            /\ b.key # ToLower(base) =>
                   /\ ParseRateResponse(base, b, now).err.kind = "parse"
                   /\ ParseRateResponse(base, b, now).entry = NoEntry
            /\ b.key = ToLower(base) /\ ~b.null /\ b.date = "" =>
                   /\ ParseRateResponse(base, b, now).err = NoErr
                   /\ ParseRateResponse(base, b, now).entry.Date = "")
    /\ [](\A base \in CacheKeys : \A o \in FetchOutcomes(base, now) :
            o.err # NoErr => o.entry = NoEntry)
    /\ [][AttemptFails(1) =>
            /\ errs'[1][Len(errs'[1])].kind \in {"network", "http", "parse"}
            /\ entry'[1] = entry[1]
            /\ rateCache' = rateCache /\ sets'[1] = sets[1]
            /\ rpc'[1] = "sleep"]_vars
    /\ [][rpc[1] = "sleep" => rateCache' = rateCache /\ sets'[1] = sets[1]]_vars

\* Both attempts of a call failed, the first on a body without the base key
\* and the second on the HTTP status; nothing is cached.
C26_Witness ==
    /\ rpc[1] = "done"
    /\ errs[1] = <<[kind |-> "parse", cur |-> <<>>], [kind |-> "http", cur |-> <<>>]>>
    /\ sets[1] = 0
    /\ rateCache[twd] = NoEntry
    /\ result[1].converted = <<>>


(***************************************************************************)
(* Properties of calculate: one bill, unknown ids, one greedy step         *)
(***************************************************************************)
\* The number of times id is listed in parts.
Count(parts, id) == Cardinality({k \in 1..Len(parts) : parts[k] = id})

\* No id is listed twice in parts.
Distinct(parts) == \A a, b \in 1..Len(parts) : a # b => parts[a] # parts[b]

\* The bill loop has just gone through a bill that has participants.
BillApplied ==
    cpc = "bills" /\ applied # NoApplied /\ Len(applied.bill.Participants) >= 1

\* The amount the claim gives a bill.
ClaimedAmount(bill) == IF bill.AmountBase # 0 THEN bill.AmountBase ELSE bill.Amount

\* C27: for every bill with at least one participant, calculate uses
\* AmountBase when it is non-zero and Amount otherwise; the payer is credited
\* that amount in full and each participant is debited the amount divided by
\* the number of participants; no other balance changes.
C27_PayerCreditedParticipantsDebited ==
    BillApplied /\ Distinct(applied.bill.Participants) =>
        LET b == applied.bill
            share == ClaimedAmount(b) \div Len(b.Participants)
        IN /\ DOMAIN balance = DOMAIN applied.before \cup {b.PaidBy} \cup Range(b.Participants)
           /\ \A id \in DOMAIN balance :
                  balance[id] = MapGet(applied.before, id)
                                + (IF id = b.PaidBy THEN ClaimedAmount(b) ELSE 0)
                                - (IF id \in Range(b.Participants) THEN share ELSE 0)

\* The second bill has AmountBase 0.03 and Amount 0.02, paid by Alice for
\* Alice, Bob and Charlie: Alice gains 0.03 less her share 0.01.
C27_Witness ==
    /\ BillApplied /\ nbills = 2
    /\ applied.bill = [AmountBase |-> 6, Amount |-> 4, PaidBy |-> 1, Participants |-> <<1, 2, 3>>]
    /\ balance[1] = applied.before[1] + 4
    /\ balance[2] = applied.before[2] - 2

\* C28: a participant id listed k times in one bill is debited k shares of
\* amount / len(participants), the length counting the repetitions.
C28_RepeatedParticipantDebitedPerListing ==
    BillApplied =>
        LET b == applied.bill
            share == ClaimedAmount(b) \div Len(b.Participants)
        IN \A id \in Range(b.Participants) :
               balance[id] = MapGet(applied.before, id)
                             + (IF id = b.PaidBy THEN ClaimedAmount(b) ELSE 0)
                             - Count(b.Participants, id) * share

\* Charlie is listed twice in a bill of 0.02 paid by Alice: each share is
\* 0.01 and Charlie is debited 0.02.
C28_Witness ==
    /\ BillApplied
    /\ applied.bill.Participants = <<3, 3>>
    /\ applied.bill.PaidBy = 1
    /\ ClaimedAmount(applied.bill) = 4
    /\ balance[3] = MapGet(applied.before, 3) - 4


\* The ids in a creditors or debtors list.
IdsIn(list) == {list[k].id : k \in 1..Len(list)}

\* C29: calculate does not reject a bill whose payer or participants are not
\* among the people: such an id gets a balance like any other, is put in the
\* creditors or debtors list by its balance alone, is matched by the greedy
\* loop, and appears in the settlements under the empty name.
C29_UnknownIdsSettledUnderEmptyName ==
    /\ BillApplied =>
           {applied.bill.PaidBy} \cup Range(applied.bill.Participants) \subseteq DOMAIN balance
    /\ cpc \in {"greedy", "done"} =>
        /\ IdsIn(creditors) = {id \in DOMAIN balance : balance[id] > Eps}
        /\ IdsIn(debtors) = {id \in DOMAIN balance : balance[id] < 0 - Eps}
        /\ \A k \in 1..Len(settlements) :
            LET s == settlements[k]
            IN /\ s.debtorId \in IdsIn(debtors) /\ s.creditorId \in IdsIn(creditors)
               /\ s.From = IF s.debtorId \in people THEN Names[s.debtorId] ELSE ""
               /\ s.To = IF s.creditorId \in people THEN Names[s.creditorId] ELSE ""

\* Among Alice, Bob and Charlie, a bill lists the id 4 as a participant:
\* calculate returns a settlement from the empty name to a named person.
C29_Witness ==
    /\ cpc = "done" /\ people = {1, 2, 3}
    /\ 4 \in DOMAIN balance
    /\ \E k \in 1..Len(settlements) :
           /\ settlements[k].debtorId = 4
           /\ settlements[k].From = ""
           /\ settlements[k].To # ""


\* This step is an iteration of the greedy loop.
GreedyIteration ==
    cpc = "greedy" /\ cpc' = "greedy" /\ <<creditors, debtors, i, j, settlements>>' #
                                          <<creditors, debtors, i, j, settlements>>

\* C30: each greedy step pairs the current creditor with the current debtor,
\* emits exactly one settlement for the smaller of their remaining amounts,
\* subtracts it from both, and moves past each party whose remainder is then
\* below 0.01, at least one of them in every step; when the loop has ended,
\* every creditor or every debtor has a remainder below 0.01.
C30_GreedyStepPairsAndAdvances ==
    /\ [][GreedyIteration =>
            LET cred == creditors[i + 1]
                debt == debtors[j + 1]
                amt == IF FLess(debt.amount, cred.amount) THEN debt.amount ELSE cred.amount
            IN /\ i < Len(creditors) /\ j < Len(debtors)
               /\ Len(settlements') = Len(settlements) + 1
               /\ SubSeq(settlements', 1, Len(settlements)) = settlements
               /\ settlements'[Len(settlements')].Amount = amt
               /\ settlements'[Len(settlements')].debtorId = debt.id
               /\ settlements'[Len(settlements')].creditorId = cred.id
               /\ creditors' = [creditors EXCEPT ![i + 1].amount = FSub(cred.amount, amt)]
               /\ debtors' = [debtors EXCEPT ![j + 1].amount = FSub(debt.amount, amt)]
               /\ i' = IF FLess(FSub(cred.amount, amt), Eps) THEN i + 1 ELSE i
               /\ j' = IF FLess(FSub(debt.amount, amt), Eps) THEN j + 1 ELSE j
               /\ i' > i \/ j' > j]_vars
    /\ [](cpc = "done" =>
            \/ \A k \in 1..Len(creditors) : FLess(creditors[k].amount, Eps)
            \/ \A k \in 1..Len(debtors) : FLess(debtors[k].amount, Eps))

\* C30, its progress part: every greedy step moves past the creditor or the
\* debtor, so that the loop ends.
C30_EveryStepAdvances == [][GreedyIteration => (i' > i \/ j' > j)]_vars

\* The loop has ended after two steps: the first settled the debtor and left
\* the creditor a remainder, the second settled both.
C30_Witness ==
    /\ cpc = "done"
    /\ Len(settlements) = 2
    /\ settlements[1].creditorId = settlements[2].creditorId
    /\ settlements[1].debtorId # settlements[2].debtorId
    /\ i = Len(creditors) /\ j = Len(debtors)

(***************************************************************************)
(* Properties of the cache under concurrent conversions                    *)
(***************************************************************************)
\* C31: under any interleaving of concurrent calls of convertBillsToBase the
\* FetchedAt of the cached entry of a base never decreases: an entry fetched
\* earlier never overwrites an entry fetched later.
C31_FetchedAtNeverDecreases ==
    [][\A b \in CacheKeys : rateCache'[b].FetchedAt >= rateCache[b].FetchedAt]_vars

(***************************************************************************)
(* Properties of the settlements of calculate                              *)
(***************************************************************************)
\* The credit of an id before the settlement: its balance when it is a
\* creditor, nothing otherwise; and its debt likewise.
CreditOf(bal, id) == IF IsCreditor(bal[id]) THEN bal[id] ELSE 0
DebtOf(bal, id) == IF IsDebtor(bal[id]) THEN 0 - bal[id] ELSE 0

RECURSIVE TotalOf(_, _, _)
\* Op(bal, id) summed over the ids of S.
TotalOf(Op(_, _), bal, S) ==
    IF S = {} THEN 0
    ELSE LET id == CHOOSE x \in S : TRUE
         IN Op(bal, id) + TotalOf(Op, bal, S \ {id})

\* C32: in the result of calculate no debtor pays in total more than their
\* debt before the settlement, no creditor receives in total more than their
\* credit, and the settlement amounts sum to at most the smaller of the total
\* credit and the total debt.
C32_NobodyOverpaysOrOverreceives ==
    cpc = "done" =>
        /\ \A id \in DOMAIN balance :
               /\ Paid(settlements, id) <= DebtOf(balance, id)
               /\ Received(settlements, id) <= CreditOf(balance, id)
        /\ SumAmounts(settlements) <= TotalOf(CreditOf, balance, DOMAIN balance)
        /\ SumAmounts(settlements) <= TotalOf(DebtOf, balance, DOMAIN balance)

\* One debtor has paid two creditors, in total exactly the debt.
C32_Witness ==
    /\ cpc = "done"
    /\ Len(settlements) = 2
    /\ settlements[1].debtorId = settlements[2].debtorId
    /\ settlements[1].creditorId # settlements[2].creditorId
    /\ Paid(settlements, settlements[1].debtorId) =
           DebtOf(balance, settlements[1].debtorId)

\* The ids of a list of creditors or debtors.
ListIds(list) == {list[k].id : k \in 1..Len(list)}

\* C33: in the result of calculate no settlement has the same person id as
\* payer and receiver (no id is both a creditor and a debtor), and each
\* ordered pair of a debtor id and a creditor id occurs in at most one
\* settlement.
C33_NoSelfSettlementPairsOnce ==
    cpc \in {"greedy", "done"} =>
        /\ ListIds(creditors) \cap ListIds(debtors) = {}
        /\ \A k \in 1..Len(settlements) :
               settlements[k].debtorId # settlements[k].creditorId
        /\ \A k, l \in 1..Len(settlements) :
               (/\ settlements[k].debtorId = settlements[l].debtorId
                /\ settlements[k].creditorId = settlements[l].creditorId) => k = l

\* Three settlements have been returned: the first two to the same creditor,
\* the last two from the same debtor.
C33_Witness ==
    /\ cpc = "done"
    /\ Len(settlements) = 3
    /\ settlements[1].creditorId = settlements[2].creditorId
    /\ settlements[2].debtorId = settlements[3].debtorId

(***************************************************************************)
(* What convertBillsToBase leaves alone                                    *)
(***************************************************************************)
\* The call c is between its entry and its end.
Converting(c) == rpc[c] \notin {"idle", "done", "panic"}

\* C34: convertBillsToBase leaves the bills of its caller unchanged; on
\* success it returns one bill per input bill, in the same order, each equal
\* to its input bill in every field except AmountBase; and a call for one base
\* never changes the cache entry of another base.
C34_InputAndOtherBasesUntouched ==
    /\ [][\A c \in Calls : Converting(c) => req'[c] = req[c]]_vars
    /\ [](\A c \in Calls :
             (rpc[c] = "done" /\ result[c].err = NoErr) =>
                 /\ Len(result[c].converted) = Len(req[c].bills)
                 /\ \A k \in 1..Len(req[c].bills) :
                        result[c].converted[k] =
                            [req[c].bills[k] EXCEPT
                                 !.AmountBase = result[c].converted[k].AmountBase])
    /\ [][\A b \in CacheKeys :
              rateCache'[b] # rateCache[b] =>
                  \/ \A c \in Calls : rpc[c] = "idle"
                  \/ \E c \in Calls : rpc'[c] # rpc[c] /\ BaseLower(c) = b]_vars

\* Two calls for different bases have both returned converted bills, call 1
\* with AmountBase values its input did not have, and each base has its
\* entry in the cache.
C34_Witness ==
    /\ rpc[1] = "done" /\ rpc[2] = "done"
    /\ result[1].err = NoErr /\ result[2].err = NoErr
    /\ BaseLower(1) # BaseLower(2)
    /\ Len(result[1].converted) >= 2
    /\ \A k \in 1..Len(req[1].bills) :
           result[1].converted[k].AmountBase # req[1].bills[k].AmountBase
    /\ rateCache[BaseLower(1)] # NoEntry /\ rateCache[BaseLower(2)] # NoEntry
    /\ sets[1] > 0 /\ sets[2] > 0

(***************************************************************************)
(* What handleSync writes                                                  *)
(***************************************************************************)
\* The request of h is a POST whose body can be read and decoded.
DecodablePost(h) ==
    sreq[h].method = "POST" /\ sreq[h].body.read /\ sreq[h].body.json

\* This step is a step of the request of h.
StepOf(h) == spc'[h] # spc[h]

\* C35: handleSync changes projectState, LastUpdated included, only on a POST
\* whose body decodes: every step of a GET, or of a POST whose body cannot be
\* read or decoded, leaves it unchanged, and such a request ends without
\* having stored anything.
C35_OnlyDecodablePostWrites ==
    /\ [][projectState' # projectState =>
              \E h \in Handlers : StepOf(h) /\ DecodablePost(h)]_vars
    /\ [][\A h \in Handlers :
              (StepOf(h) /\ ~DecodablePost(h) /\ spc[h] # "idle") =>
                  projectState' = projectState /\ stored' = stored]_vars
    /\ [](\A h \in Handlers :
              (spc[h] # "idle" /\ ~DecodablePost(h)) => wrote[h] = NoState)

\* A POST stored a state; after it a POST without JSON was refused and a GET
\* with a JSON body was answered with the stored state.
C35_Witness ==
    /\ spc[1] = "idle" /\ sreq[1].method = "POST" /\ ~sreq[1].body.json
    /\ sresp[1].status = 400
    /\ spc[2] = "Unlock" /\ sreq[2].method = "GET" /\ sreq[2].body.json
    /\ sresp[2].status = 200
    /\ sresp[2].state = projectState
    /\ projectState \in stored
    /\ projectState.People # sreq[2].body.state.People

\* No request is between the two assignments of an accepted POST.
Visible == \A h \in Handlers : spc[h] # "LastUpdated"

\* An accepted POST stores the posted state at its first assignment and the
\* posted state with the server's time as LastUpdated at its second.
PostReplacesWholeState ==
    /\ [][\A h \in Handlers :
              (StepOf(h) /\ spc[h] = "method" /\ DecodablePost(h)) =>
                  projectState' = sreq[h].body.state]_vars
    /\ [][\A h \in Handlers :
              (StepOf(h) /\ spc[h] = "LastUpdated") =>
                  /\ projectState' = [sreq[h].body.state EXCEPT !.LastUpdated = now]
                  /\ projectState' = wrote'[h]]_vars
    /\ [](Visible => projectState \in stored \cup {InitialState})

\* The LastUpdated that requests find stored is not below any stored before.
LastUpdatedAtLeastEarlier ==
    \A st \in stored : st.LastUpdated <= projectState.LastUpdated

\* C36 as stated: an accepted POST replaces the whole state with the posted
\* people, bills and base currency, whatever LastUpdated the client sent or
\* the server held, and sets LastUpdated to the server's time; so across any
\* sequence of requests the stored LastUpdated never decreases.
C36_LastUpdatedNeverDecreases ==
    /\ PostReplacesWholeState
    /\ [](Visible => LastUpdatedAtLeastEarlier)

\* C36, amended: the replacement is unconditional and LastUpdated is the
\* server's wall-clock time at the store; the stored LastUpdated never
\* decreases as long as the wall clock has not been set back.
C36_LastWriterWinsServerTime ==
    /\ PostReplacesWholeState
    /\ [](Visible /\ ~setBack => LastUpdatedAtLeastEarlier)

\* A state stored at minute 15 has been replaced at minute 30 by a POST whose
\* client sent LastUpdated 0, and another POST sent a LastUpdated of 99.
C36_Witness ==
    /\ spc[1] = "Unlock" /\ DecodablePost(1)
    /\ sreq[1].body.state.LastUpdated = 0
    /\ projectState = [sreq[1].body.state EXCEPT !.LastUpdated = 30]
    /\ \E st \in stored : st.LastUpdated = 15 /\ st.People # projectState.People
    /\ sreq[2].body.state.LastUpdated = 99 /\ wrote[2].LastUpdated = 15
    /\ ~setBack

====
